---- MODULE Spec2Model ----
(***************************************************************************)
(* Model of the htmlToFigma conversion engine: the stylesheet parser and   *)
(* cascade (base-converter.ts), the tree builder, the selector matcher,    *)
(* the vector converter and the colour, padding and font helpers.          *)
(*                                                                         *)
(* Strings are sequences of one-character strings, so that slicing,        *)
(* splitting, trimming and the regular expressions of the source are       *)
(* computed character by character.  A JavaScript number is a record       *)
(* [nan, n, d] standing for the rational n/d, or for NaN.                   *)
(***************************************************************************)
EXTENDS Integers, Sequences, FiniteSets, TLC

VARIABLES
    pc,        \* position of the run under study
    arg,       \* argument of the helper function under study
    ret,       \* value it returned
    html,      \* the parsed document (cheerio tree), node id -> element
    css,       \* the stylesheet text, as the rule sequence css-tree parses
    cssRules,  \* Map<string, declarations> built by parseCssRules, in key order
    page,      \* page.children of the document being built
    idx,       \* position of htmlToFigma's loop over the children of body
    selectThrows,  \* whether css-select's selectOne raises with the adapter given
    parseThrows,  \* where css-tree raises: "never", "parse" or "join"
    warned,  \* whether the catch clause of parseCssRules ran
    request,  \* arguments of the import_h2d_file call: the file and outputPath
    images,  \* this.images of the converter: url -> ImageResource
    fonts,  \* this.fonts of the converter: font key -> FontInfo
    imageProcessor,  \* whether this.imageProcessor of the converter is set
    imageCache,  \* ImageProcessor.imageCache: url -> ImageResource
    animations,  \* AnimationExtractor.animations of the web converter
    sessions,  \* the conversions of the web converter in flight, each with its locals
    heap,  \* the style objects of the converter: a rule declarations object or a style map, by reference
    calls,  \* history: the calls of computeStyles made so far
    browser  \* this.browser of the web converter: whether a browser is launched

vars == <<pc, arg, ret, html, css, cssRules, page, idx, selectThrows,
         parseThrows, warned, request, images, fonts, imageProcessor,
         imageCache, animations, sessions, heap, calls, browser>>

(***************************************************************************)
(* Characters and strings                                                  *)
(***************************************************************************)
Digits == {"0", "1", "2", "3", "4", "5", "6", "7", "8", "9"}

HexLetters == {"a", "b", "c", "d", "e", "f"}

LowerLetters == {"a", "b", "c", "d", "e", "f", "g", "h", "i", "j", "k", "l", "m",
                 "n", "o", "p", "q", "r", "s", "t", "u", "v", "w", "x", "y", "z"}

\* String.prototype.toLowerCase, character by character
ToLowerChar(c) ==
    CASE c = "A" -> "a" [] c = "B" -> "b" [] c = "C" -> "c" [] c = "D" -> "d"
      [] c = "E" -> "e" [] c = "F" -> "f" [] c = "G" -> "g" [] c = "H" -> "h"
      [] c = "I" -> "i" [] c = "J" -> "j" [] c = "K" -> "k" [] c = "L" -> "l"
      [] c = "M" -> "m" [] c = "N" -> "n" [] c = "O" -> "o" [] c = "P" -> "p"
      [] c = "Q" -> "q" [] c = "R" -> "r" [] c = "S" -> "s" [] c = "T" -> "t"
      [] c = "U" -> "u" [] c = "V" -> "v" [] c = "W" -> "w" [] c = "X" -> "x"
      [] c = "Y" -> "y" [] c = "Z" -> "z"
      [] OTHER -> c

ToLowerCase(s) == [i \in DOMAIN s |-> ToLowerChar(s[i])]

\* [a-z] under the i flag
IsLetter(c) == ToLowerChar(c) \in LowerLetters

Whitespace == {" "}

DigitVal(c) ==
    CASE c = "0" -> 0 [] c = "1" -> 1 [] c = "2" -> 2 [] c = "3" -> 3
      [] c = "4" -> 4 [] c = "5" -> 5 [] c = "6" -> 6 [] c = "7" -> 7
      [] c = "8" -> 8 [] c = "9" -> 9 [] c = "a" -> 10 [] c = "b" -> 11
      [] c = "c" -> 12 [] c = "d" -> 13 [] c = "e" -> 14 [] c = "f" -> 15
      [] OTHER -> 0

\* String.prototype.slice(from, to) with 0-based, non-negative indices.
Slice(s, from, to) ==
    LET hi == IF to > Len(s) THEN Len(s) ELSE to
    IN  IF from >= hi THEN <<>> ELSE SubSeq(s, from + 1, hi)

StartsWith(s, prefix) ==
    /\ Len(s) >= Len(prefix)
    /\ SubSeq(s, 1, Len(prefix)) = prefix

EndsWith(s, suffix) ==
    /\ Len(s) >= Len(suffix)
    /\ SubSeq(s, Len(s) - Len(suffix) + 1, Len(s)) = suffix

RECURSIVE TrimLeft(_)
TrimLeft(s) ==
    IF s # <<>> /\ Head(s) \in Whitespace THEN TrimLeft(Tail(s)) ELSE s

RECURSIVE TrimRight(_)
TrimRight(s) ==
    IF s # <<>> /\ s[Len(s)] \in Whitespace
    THEN TrimRight(SubSeq(s, 1, Len(s) - 1))
    ELSE s

\* String.prototype.trim
Trim(s) == TrimRight(TrimLeft(s))

\* The longest prefix of s whose characters are all in the set cs.
RECURSIVE PrefixIn(_, _)
PrefixIn(s, cs) ==
    IF s # <<>> /\ Head(s) \in cs
    THEN <<Head(s)>> \o PrefixIn(Tail(s), cs)
    ELSE <<>>

\* String.prototype.split(sep) for a one-character separator: the pieces
\* between the separators, empty pieces kept.
RECURSIVE SplitOn(_, _)
SplitOn(s, sep) ==
    LET first == PrefixIn(s, {s[i] : i \in DOMAIN s} \ {sep})
    IN  IF Len(first) = Len(s)
        THEN <<first>>
        ELSE <<first>> \o SplitOn(SubSeq(s, Len(first) + 2, Len(s)), sep)

\* Array.prototype.join(sep)
RECURSIVE Join(_, _)
Join(parts, sep) ==
    IF parts = <<>> THEN <<>>
    ELSE IF Len(parts) = 1 THEN parts[1]
    ELSE parts[1] \o sep \o Join(Tail(parts), sep)

(***************************************************************************)
(* Numbers                                                                 *)
(***************************************************************************)
NaN == [nan |-> TRUE, n |-> 0, d |-> 1]

Num(k) == [nan |-> FALSE, n |-> k, d |-> 1]

Frac(k, m) == [nan |-> FALSE, n |-> k, d |-> m]

IsNaN(x) == x.nan

NumEq(x, y) == ~x.nan /\ ~y.nan /\ x.n * y.d = y.n * x.d

NumLe(x, y) == ~x.nan /\ ~y.nan /\ x.n * y.d <= y.n * x.d

NumLt(x, y) == ~x.nan /\ ~y.nan /\ x.n * y.d < y.n * x.d

\* x / k for an integer k > 0
DivBy(x, k) == IF x.nan THEN NaN ELSE Frac(x.n, x.d * k)

\* x * k for an integer k
MulBy(x, k) == IF x.nan THEN NaN ELSE Frac(x.n * k, x.d)

\* A number is falsy when it is 0 or NaN.
Truthy(x) == ~x.nan /\ x.n # 0

RECURSIVE DigitsValue(_, _, _)
DigitsValue(s, base, acc) ==
    IF s = <<>> THEN acc
    ELSE DigitsValue(Tail(s), base, acc * base + DigitVal(Head(s)))

RECURSIVE Pow10(_)
Pow10(k) == IF k = 0 THEN 1 ELSE 10 * Pow10(k - 1)

\* parseInt(s, 16): the longest prefix of hexadecimal digits, NaN when empty.
ParseIntHex(s) ==
    LET run == PrefixIn(ToLowerCase(s), Digits \cup HexLetters)
    IN  IF run = <<>> THEN NaN ELSE Num(DigitsValue(run, 16, 0))

\* parseInt(s): optional sign, then the longest prefix of decimal digits.
ParseInt(s) ==
    LET t    == TrimLeft(s)
        neg  == t # <<>> /\ Head(t) = "-"
        body == IF neg THEN Tail(t) ELSE t
        run  == PrefixIn(body, Digits)
    IN  IF run = <<>> THEN NaN
        ELSE Num((IF neg THEN -1 ELSE 1) * DigitsValue(run, 10, 0))

\* -x
Negate(x) == IF x.nan THEN NaN ELSE Frac(-x.n, x.d)

\* The number written by the digits whole, a point and the digits frac.
FloatOf(whole, frac) ==
    IF whole = <<>> /\ frac = <<>> THEN NaN
    ELSE Frac(DigitsValue(whole, 10, 0) * Pow10(Len(frac)) + DigitsValue(frac, 10, 0),
              Pow10(Len(frac)))

\* The digits after the point that rest starts with, if it does.
FractionDigits(rest) ==
    IF rest # <<>> /\ Head(rest) = "." THEN PrefixIn(Tail(rest), Digits) ELSE <<>>

FloatAfter(whole, body) ==
    FloatOf(whole, FractionDigits(SubSeq(body, Len(whole) + 1, Len(body))))

UnsignedFloat(body) == FloatAfter(PrefixIn(body, Digits), body)

SignedFloat(t) ==
    IF t # <<>> /\ Head(t) = "-" THEN Negate(UnsignedFloat(Tail(t)))
    ELSE UnsignedFloat(t)

\* parseFloat(s): optional sign, digits, optional fraction; NaN when no digit.
ParseFloat(s) == SignedFloat(TrimLeft(s))

\* String.prototype.match(/\d+/g): the maximal runs of decimal digits.
RECURSIVE DigitRuns(_)
DigitRuns(s) ==
    IF s = <<>> THEN <<>>
    ELSE IF Head(s) \in Digits
    THEN LET run == PrefixIn(s, Digits)
         IN  <<run>> \o DigitRuns(SubSeq(s, Len(run) + 1, Len(s)))
    ELSE DigitRuns(Tail(s))

(***************************************************************************)
(* Colour parsing: FigmaConverter.colorToFigma and SvgConverter.parseColor *)
(***************************************************************************)
ColorByte == 255

Rgba(r, g, b, a) == [r |-> r, g |-> g, b |-> b, a |-> a]

OpaqueBlack == Rgba(Num(0), Num(0), Num(0), Num(1))

HexColor(color) ==
    LET hex == Slice(color, 1, Len(color))
    IN  Rgba(DivBy(ParseIntHex(Slice(hex, 0, 2)), ColorByte),
             DivBy(ParseIntHex(Slice(hex, 2, 4)), ColorByte),
             DivBy(ParseIntHex(Slice(hex, 4, 6)), ColorByte),
             IF Len(hex) = 8
             THEN DivBy(ParseIntHex(Slice(hex, 6, 8)), ColorByte)
             ELSE Num(1))

\* match[k] of a shorter array is undefined, and parseInt(undefined) is NaN.
RunInt(match, k) == IF k <= Len(match) THEN ParseInt(match[k]) ELSE NaN

\* a = match[3] ? parseFloat(match[3]) : 1, on the digit runs of the text
RgbAlpha(match) == IF Len(match) >= 4 THEN ParseFloat(match[4]) ELSE Num(1)

RgbColor(color) ==
    LET match == DigitRuns(color)
    IN  Rgba(DivBy(RunInt(match, 1), ColorByte),
             DivBy(RunInt(match, 2), ColorByte),
             DivBy(RunInt(match, 3), ColorByte),
             RgbAlpha(match))

colorToFigma(color) ==
    IF StartsWith(color, <<"#">>) THEN HexColor(color)
    ELSE IF StartsWith(color, <<"r", "g", "b">>) /\ DigitRuns(color) # <<>>
    THEN RgbColor(color)
    ELSE OpaqueBlack

namedColors ==
    [s \in {<<"b", "l", "a", "c", "k">>, <<"w", "h", "i", "t", "e">>,
            <<"r", "e", "d">>, <<"g", "r", "e", "e", "n">>,
            <<"b", "l", "u", "e">>} |->
        CASE s = <<"b", "l", "a", "c", "k">> -> Rgba(Num(0), Num(0), Num(0), Num(1))
          [] s = <<"w", "h", "i", "t", "e">> -> Rgba(Num(1), Num(1), Num(1), Num(1))
          [] s = <<"r", "e", "d">> -> Rgba(Num(1), Num(0), Num(0), Num(1))
          [] s = <<"g", "r", "e", "e", "n">> -> Rgba(Num(0), Num(1), Num(0), Num(1))
          [] OTHER -> Rgba(Num(0), Num(0), Num(1), Num(1))]

parseColor(color) ==
    IF StartsWith(color, <<"#">>) THEN HexColor(color)
    ELSE IF StartsWith(color, <<"r", "g", "b">>) /\ DigitRuns(color) # <<>>
    THEN RgbColor(color)
    ELSE IF ToLowerCase(color) \in DOMAIN namedColors
    THEN namedColors[ToLowerCase(color)]
    ELSE OpaqueBlack

(***************************************************************************)
(* Runs of one helper function: the argument is drawn by the initial       *)
(* state, the function is applied once, its value is kept in ret.          *)
(***************************************************************************)
NoRet == [fn |-> "none"]

Returned(fn, value) == [fn |-> fn, value |-> value]

\* No tool call is under way.
NoRequest == [tool |-> "none"]

IdleDocument ==
    /\ html = <<>>
    /\ css = <<>>
    /\ cssRules = <<>>
    /\ page = <<>>
    /\ idx = 0
    /\ selectThrows = FALSE
    /\ parseThrows = "never"
    /\ warned = FALSE
    /\ request = NoRequest
    /\ images = <<>>
    /\ fonts = <<>>
    /\ imageProcessor = FALSE
    /\ imageCache = <<>>
    /\ animations = {}
    /\ sessions = <<>>
    /\ heap = <<>>
    /\ calls = <<>>
    /\ browser = FALSE

Str2(a, b) == <<a, b>>

HexPairs == {Str2("0", "0"), Str2("8", "0"), Str2("f", "f")}

Bytes == {<<"0">>, <<"1", "2", "8">>, <<"2", "5", "5">>}

Alphas == {<<"0">>, <<"1">>, <<"0", ".", "5">>, <<"0", ".", "2", "5">>}

ColorNames == {<<"r", "e", "d">>, <<"t", "e", "a", "l">>, <<"B", "l", "u", "e">>,
               <<"n", "a", "v", "y">>, <<"r", "g", "b">>}

\* The colour strings the runs draw from, each with the components written
\* in it: #rrggbb, #rgb, #rrggbbaa, rgb(r,g,b), rgba(r,g,b,a) and names.
ColorArgs ==
    {[kind |-> "hex6", parts |-> <<a, b, c>>, text |-> <<"#">> \o a \o b \o c] :
        a \in HexPairs, b \in HexPairs, c \in HexPairs}
    \cup
    {[kind |-> "hex8", parts |-> <<a, b, c>>, text |-> <<"#">> \o a \o a \o b \o c] :
        a \in HexPairs, b \in HexPairs, c \in HexPairs}
    \cup
    {[kind |-> "hex3", parts |-> <<a, b, c>>, text |-> <<"#">> \o a \o b \o c] :
        a \in {<<"0">>, <<"f">>}, b \in {<<"0">>, <<"f">>}, c \in {<<"0">>}}
    \cup
    {[kind |-> "rgb", parts |-> <<r, g, b>>,
      text |-> <<"r", "g", "b", "(">> \o r \o <<",">> \o g \o <<",">> \o b \o <<")">>] :
        r \in Bytes, g \in Bytes, b \in Bytes}
    \cup
    {[kind |-> "rgba", parts |-> <<r, g, b, a>>,
      text |-> <<"r", "g", "b", "a", "(">> \o r \o <<",">> \o g \o <<",">> \o b
               \o <<",">> \o a \o <<")">>] :
        r \in {<<"0">>, <<"2", "5", "5">>}, g \in {<<"0">>, <<"2", "5", "5">>},
        b \in {<<"0">>}, a \in Alphas}
    \cup
    {[kind |-> "name", parts |-> <<>>, text |-> n] : n \in ColorNames}

InitColor ==
    /\ pc = "start"
    /\ arg \in ColorArgs
    /\ ret = NoRet
    /\ IdleDocument

\* FigmaConverter.colorToFigma(arg)
ColorToFigma ==
    /\ pc = "start"
    /\ pc' = "done"
    /\ ret' = Returned("colorToFigma", colorToFigma(arg.text))
    /\ UNCHANGED <<arg, html, css, cssRules, page, idx, selectThrows, parseThrows,
               warned, request, images, fonts, imageProcessor, imageCache,
               animations, sessions, heap, calls, browser>>

\* SvgConverter.parseColor(arg)
ParseColor ==
    /\ pc = "start"
    /\ pc' = "done"
    /\ ret' = Returned("parseColor", parseColor(arg.text))
    /\ UNCHANGED <<arg, html, css, cssRules, page, idx, selectThrows, parseThrows,
               warned, request, images, fonts, imageProcessor, imageCache,
               animations, sessions, heap, calls, browser>>

NextColor == ColorToFigma \/ ParseColor

SpecColor == InitColor /\ [][NextColor]_vars

\* The value a component written in the colour string stands for.
WrittenHex(pair) == Frac(DigitsValue(pair, 16, 0), ColorByte)

WrittenByte(s) == DivBy(ParseFloat(s), ColorByte)

Recognized(fn, name) ==
    fn = "parseColor" /\ ToLowerCase(name) \in DOMAIN namedColors

\* C5: "#rrggbb" maps to rr/255, gg/255, bb/255 with a = 1; rgba(r,g,b,alpha)
\* maps to r/255, g/255, b/255 with a equal to the written alpha, fractional
\* alphas included; an unrecognized name maps to opaque black.
C5_ColourParser ==
    pc = "done" =>
        /\ arg.kind = "hex6" =>
              /\ NumEq(ret.value.r, WrittenHex(arg.parts[1]))
              /\ NumEq(ret.value.g, WrittenHex(arg.parts[2]))
              /\ NumEq(ret.value.b, WrittenHex(arg.parts[3]))
              /\ NumEq(ret.value.a, Num(1))
        /\ arg.kind = "rgba" =>
              /\ NumEq(ret.value.r, WrittenByte(arg.parts[1]))
              /\ NumEq(ret.value.g, WrittenByte(arg.parts[2]))
              /\ NumEq(ret.value.b, WrittenByte(arg.parts[3]))
              /\ NumEq(ret.value.a, ParseFloat(arg.parts[4]))
        /\ (arg.kind = "name" /\ ~Recognized(ret.fn, arg.text)) =>
              ret.value = OpaqueBlack


(***************************************************************************)
(* Layout mapping: parseSize, parsePadding, getLayoutProperties            *)
(***************************************************************************)
\* A value that was never set (undefined); no string holds this character.
Undefined == <<"undefined">>

\* styles.key of a style object: a function from property names to strings.
Get(styles, key) == IF key \in DOMAIN styles THEN styles[key] ELSE Undefined

\* A string is truthy when it is set and not empty.
Set(value) == value # Undefined /\ value # <<>>

RootFontSize == 16

\* x || 0
OrZero(x) == IF Truthy(x) THEN x ELSE Num(0)

parseSize(value, maxSize) ==
    IF EndsWith(value, <<"p", "x">>) THEN ParseFloat(value)
    ELSE IF EndsWith(value, <<"%">>)
    THEN MulBy(DivBy(ParseFloat(value), 100), maxSize)
    ELSE IF EndsWith(value, <<"r", "e", "m">>) \/ EndsWith(value, <<"e", "m">>)
    THEN MulBy(ParseFloat(value), RootFontSize)
    ELSE OrZero(ParseFloat(value))

\* String.prototype.split(/\s+/): the pieces between the runs of whitespace;
\* a leading or trailing run leaves an empty piece, "" gives [""].
RECURSIVE SplitWhitespace(_)
SplitWhitespace(s) ==
    LET first == PrefixIn(s, {s[i] : i \in DOMAIN s} \ Whitespace)
        rest  == SubSeq(s, Len(first) + 1, Len(s))
    IN  IF rest = <<>> THEN <<first>>
        ELSE <<first>> \o SplitWhitespace(TrimLeft(rest))

Sides(top, right, bottom, left) ==
    [top |-> top, right |-> right, bottom |-> bottom, left |-> left]

SidesOf(values) ==
    IF Len(values) = 1
    THEN Sides(values[1], values[1], values[1], values[1])
    ELSE IF Len(values) = 2
    THEN Sides(values[1], values[2], values[1], values[2])
    ELSE IF Len(values) = 4
    THEN Sides(values[1], values[2], values[3], values[4])
    ELSE Sides(Num(0), Num(0), Num(0), Num(0))

\* pieces.map(parseFloat)
Floats(pieces) == [k \in DOMAIN pieces |-> ParseFloat(pieces[k])]

parsePadding(padding) == SidesOf(Floats(SplitWhitespace(padding)))

Viewport == [width |-> 1000, height |-> 500]

NoProps == [x \in {} |-> {}]

SizeProps(styles, viewport) ==
    (IF Set(Get(styles, <<"width">>))
     THEN "width" :> parseSize(styles[<<"width">>], viewport.width)
     ELSE NoProps)
    @@
    (IF Set(Get(styles, <<"height">>))
     THEN "height" :> parseSize(styles[<<"height">>], viewport.height)
     ELSE NoProps)

\* const display = styles.display || 'block'; the branch taken for 'flex'
AutoLayoutProps(styles) ==
    IF Get(styles, <<"display">>) = <<"f", "l", "e", "x">>
    THEN ("layoutMode" :>
              (IF Get(styles, <<"flexDirection">>) = <<"c", "o", "l", "u", "m", "n">>
               THEN "VERTICAL" ELSE "HORIZONTAL"))
         @@ ("primaryAxisSizingMode" :> "AUTO")
         @@ ("counterAxisSizingMode" :> "AUTO")
         @@ (IF Set(Get(styles, <<"gap">>))
             THEN "itemSpacing" :> ParseFloat(styles[<<"gap">>])
             ELSE NoProps)
    ELSE NoProps

PaddingSides(padding) ==
    ("paddingLeft" :> padding.left) @@ ("paddingRight" :> padding.right)
    @@ ("paddingTop" :> padding.top) @@ ("paddingBottom" :> padding.bottom)

PaddingProps(styles) ==
    IF Set(Get(styles, <<"padding">>))
    THEN PaddingSides(parsePadding(styles[<<"padding">>]))
    ELSE NoProps

getLayoutProperties(styles, viewport) ==
    SizeProps(styles, viewport) @@ AutoLayoutProps(styles) @@ PaddingProps(styles)

MaxPaddingValues == 5

PaddingTokens == {<<"1">>, <<"2", "0", "p", "x">>}

Separators == {<<" ">>, <<" ", " ">>}

SeqsUpTo(S, n) == UNION {[1..k -> S] : k \in 0..n}

\* The padding strings the runs draw from: up to MaxPaddingValues lengths
\* separated by one or two spaces, each with the values written in it.
PaddingArgs ==
    {[values |-> vs, text |-> Join(vs, sep)] :
        vs \in SeqsUpTo(PaddingTokens, MaxPaddingValues), sep \in Separators}

InitPadding ==
    /\ pc = "start"
    /\ arg \in PaddingArgs
    /\ ret = NoRet
    /\ IdleDocument

\* FigmaConverter.parsePadding(arg)
ParsePadding ==
    /\ pc = "start"
    /\ pc' = "done"
    /\ ret' = Returned("parsePadding", parsePadding(arg.text))
    /\ UNCHANGED <<arg, html, css, cssRules, page, idx, selectThrows, parseThrows,
               warned, request, images, fonts, imageProcessor, imageCache,
               animations, sessions, heap, calls, browser>>

\* FigmaConverter.getLayoutProperties({padding: arg}, viewport)
GetLayoutProperties ==
    /\ pc = "start"
    /\ pc' = "done"
    /\ ret' = Returned("getLayoutProperties",
                       getLayoutProperties(<<"padding">> :> arg.text, Viewport))
    /\ UNCHANGED <<arg, html, css, cssRules, page, idx, selectThrows, parseThrows,
               warned, request, images, fonts, imageProcessor, imageCache,
               animations, sessions, heap, calls, browser>>

NextPadding == ParsePadding \/ GetLayoutProperties

SpecPadding == InitPadding /\ [][NextPadding]_vars

AllSides(sides, value) ==
    /\ NumEq(sides.top, value)
    /\ NumEq(sides.right, value)
    /\ NumEq(sides.bottom, value)
    /\ NumEq(sides.left, value)

\* C6: one value fills all four sides; two values give top = bottom = first
\* and right = left = second; four values give top, right, bottom, left in
\* that order; any other number of values (0, 3, 5 or more) gives four zeros.
C6_PaddingShorthand ==
    (pc = "done" /\ ret.fn = "parsePadding") =>
        LET n    == Len(arg.values)
            v(k) == ParseFloat(arg.values[k])
        IN  /\ n = 1 => AllSides(ret.value, v(1))
            /\ n = 2 => /\ NumEq(ret.value.top, v(1))
                        /\ NumEq(ret.value.bottom, v(1))
                        /\ NumEq(ret.value.right, v(2))
                        /\ NumEq(ret.value.left, v(2))
            /\ n = 4 => /\ NumEq(ret.value.top, v(1))
                        /\ NumEq(ret.value.right, v(2))
                        /\ NumEq(ret.value.bottom, v(3))
                        /\ NumEq(ret.value.left, v(4))
            /\ n \notin {1, 2, 4} => AllSides(ret.value, Num(0))

(***************************************************************************)
(* Fonts: FigmaConverter.parseFontWeight and FontManager.mapToFigmaFont    *)
(***************************************************************************)
\* The table's entries in key order: <<web font, Figma font>>.
FONT_MAPPING ==
    <<<<<<"a", "r", "i", "a", "l">>,
        <<"A", "r", "i", "a", "l">>>>,
      <<<<"h", "e", "l", "v", "e", "t", "i", "c", "a">>,
        <<"H", "e", "l", "v", "e", "t", "i", "c", "a">>>>,
      <<<<"t", "i", "m", "e", "s">>,
        <<"T", "i", "m", "e", "s", " ", "N", "e", "w", " ", "R", "o", "m", "a", "n">>>>,
      <<<<"t", "i", "m", "e", "s", " ", "n", "e", "w", " ", "r", "o", "m", "a", "n">>,
        <<"T", "i", "m", "e", "s", " ", "N", "e", "w", " ", "R", "o", "m", "a", "n">>>>,
      <<<<"c", "o", "u", "r", "i", "e", "r">>,
        <<"C", "o", "u", "r", "i", "e", "r", " ", "N", "e", "w">>>>,
      <<<<"c", "o", "u", "r", "i", "e", "r", " ", "n", "e", "w">>,
        <<"C", "o", "u", "r", "i", "e", "r", " ", "N", "e", "w">>>>,
      <<<<"v", "e", "r", "d", "a", "n", "a">>,
        <<"V", "e", "r", "d", "a", "n", "a">>>>,
      <<<<"g", "e", "o", "r", "g", "i", "a">>,
        <<"G", "e", "o", "r", "g", "i", "a">>>>,
      <<<<"p", "a", "l", "a", "t", "i", "n", "o">>,
        <<"P", "a", "l", "a", "t", "i", "n", "o">>>>,
      <<<<"g", "a", "r", "a", "m", "o", "n", "d">>,
        <<"G", "a", "r", "a", "m", "o", "n", "d">>>>,
      <<<<"b", "o", "o", "k", "m", "a", "n">>,
        <<"B", "o", "o", "k", "m", "a", "n">>>>,
      <<<<"c", "o", "m", "i", "c", " ", "s", "a", "n", "s", " ", "m", "s">>,
        <<"C", "o", "m", "i", "c", " ", "S", "a", "n", "s", " ", "M", "S">>>>,
      <<<<"t", "r", "e", "b", "u", "c", "h", "e", "t", " ", "m", "s">>,
        <<"T", "r", "e", "b", "u", "c", "h", "e", "t", " ", "M", "S">>>>,
      <<<<"a", "r", "i", "a", "l", " ", "b", "l", "a", "c", "k">>,
        <<"A", "r", "i", "a", "l", " ", "B", "l", "a", "c", "k">>>>,
      <<<<"i", "m", "p", "a", "c", "t">>,
        <<"I", "m", "p", "a", "c", "t">>>>,
      <<<<"r", "o", "b", "o", "t", "o">>,
        <<"R", "o", "b", "o", "t", "o">>>>,
      <<<<"o", "p", "e", "n", " ", "s", "a", "n", "s">>,
        <<"O", "p", "e", "n", " ", "S", "a", "n", "s">>>>,
      <<<<"l", "a", "t", "o">>,
        <<"L", "a", "t", "o">>>>,
      <<<<"m", "o", "n", "t", "s", "e", "r", "r", "a", "t">>,
        <<"M", "o", "n", "t", "s", "e", "r", "r", "a", "t">>>>,
      <<<<"r", "a", "l", "e", "w", "a", "y">>,
        <<"R", "a", "l", "e", "w", "a", "y">>>>,
      <<<<"p", "o", "p", "p", "i", "n", "s">>,
        <<"P", "o", "p", "p", "i", "n", "s">>>>,
      <<<<"s", "o", "u", "r", "c", "e", " ", "s", "a", "n", "s", " ", "p", "r", "o">>,
        <<"S", "o", "u", "r", "c", "e", " ", "S", "a", "n", "s", " ", "P", "r", "o">>>>,
      <<<<"o", "s", "w", "a", "l", "d">>,
        <<"O", "s", "w", "a", "l", "d">>>>,
      <<<<"u", "b", "u", "n", "t", "u">>,
        <<"U", "b", "u", "n", "t", "u">>>>,
      <<<<"p", "l", "a", "y", "f", "a", "i", "r", " ", "d", "i", "s", "p", "l", "a", "y">>,
        <<"P", "l", "a", "y", "f", "a", "i", "r", " ", "D", "i", "s", "p", "l", "a", "y">>>>,
      <<<<"m", "e", "r", "r", "i", "w", "e", "a", "t", "h", "e", "r">>,
        <<"M", "e", "r", "r", "i", "w", "e", "a", "t", "h", "e", "r">>>>,
      <<<<"p", "t", " ", "s", "a", "n", "s">>,
        <<"P", "T", " ", "S", "a", "n", "s">>>>,
      <<<<"p", "t", " ", "s", "e", "r", "i", "f">>,
        <<"P", "T", " ", "S", "e", "r", "i", "f">>>>,
      <<<<"d", "r", "o", "i", "d", " ", "s", "a", "n", "s">>,
        <<"D", "r", "o", "i", "d", " ", "S", "a", "n", "s">>>>,
      <<<<"d", "r", "o", "i", "d", " ", "s", "e", "r", "i", "f">>,
        <<"D", "r", "o", "i", "d", " ", "S", "e", "r", "i", "f">>>>,
      <<<<"m", "i", "c", "r", "o", "s", "o", "f", "t", " ", "y", "a", "h", "e", "i">>,
        <<"M", "i", "c", "r", "o", "s", "o", "f", "t", " ", "Y", "a", "H", "e", "i">>>>,
      <<<<"s", "i", "m", "s", "u", "n">>,
        <<"S", "i", "m", "S", "u", "n">>>>,
      <<<<"s", "i", "m", "h", "e", "i">>,
        <<"S", "i", "m", "H", "e", "i">>>>,
      <<<<"k", "a", "i", "t", "i">>,
        <<"K", "a", "i", "T", "i">>>>,
      <<<<"f", "a", "n", "g", "s", "o", "n", "g">>,
        <<"F", "a", "n", "g", "S", "o", "n", "g">>>>,
      <<<<"p", "i", "n", "g", "f", "a", "n", "g", " ", "s", "c">>,
        <<"P", "i", "n", "g", "F", "a", "n", "g", " ", "S", "C">>>>,
      <<<<"h", "i", "r", "a", "g", "i", "n", "o", " ", "s", "a", "n", "s", " ", "g", "b">>,
        <<"H", "i", "r", "a", "g", "i", "n", "o", " ", "S", "a", "n", "s", " ", "G", "B">>>>,
      <<<<"w", "e", "n", "q", "u", "a", "n", "y", "i", " ", "m", "i", "c", "r", "o", " ", "h", "e", "i">>,
        <<"W", "e", "n", "Q", "u", "a", "n", "Y", "i", " ", "M", "i", "c", "r", "o", " ", "H", "e", "i">>>>>>

FIGMA_FONTS ==
    <<<<"A", "r", "i", "a", "l">>,
      <<"H", "e", "l", "v", "e", "t", "i", "c", "a">>,
      <<"T", "i", "m", "e", "s", " ", "N", "e", "w", " ", "R", "o", "m", "a", "n">>,
      <<"C", "o", "u", "r", "i", "e", "r", " ", "N", "e", "w">>,
      <<"V", "e", "r", "d", "a", "n", "a">>,
      <<"G", "e", "o", "r", "g", "i", "a">>,
      <<"R", "o", "b", "o", "t", "o">>,
      <<"O", "p", "e", "n", " ", "S", "a", "n", "s">>,
      <<"L", "a", "t", "o">>,
      <<"M", "o", "n", "t", "s", "e", "r", "r", "a", "t">>,
      <<"I", "n", "t", "e", "r">>,
      <<"P", "o", "p", "p", "i", "n", "s">>,
      <<"S", "o", "u", "r", "c", "e", " ", "S", "a", "n", "s", " ", "P", "r", "o">>>>

DefaultWeight == 400

BoldWeight == 700

LighterWeight == 300

MinWeight == 100

MaxWeight == 900

WeightStep == 100

\* The keyword table of parseFontWeight; a missing key gives 400.
KeywordWeight(word) ==
    CASE word = <<"n", "o", "r", "m", "a", "l">> -> DefaultWeight
      [] word = <<"b", "o", "l", "d">> -> BoldWeight
      [] word = <<"l", "i", "g", "h", "t", "e", "r">> -> LighterWeight
      [] word = <<"b", "o", "l", "d", "e", "r">> -> BoldWeight
      [] OTHER -> DefaultWeight

parseFontWeight(weight) ==
    IF ~Set(weight) THEN Num(DefaultWeight)
    ELSE IF ~IsNaN(ParseInt(weight)) THEN ParseInt(weight)
    ELSE Num(KeywordWeight(ToLowerCase(weight)))

\* String.prototype.includes
Includes(s, sub) ==
    \E i \in 0..(Len(s) - Len(sub)) : SubSeq(s, i + 1, i + Len(sub)) = sub

\* The Figma font of the first table entry, from position k on, whose key
\* contains the family or is contained in it; Undefined when there is none.
RECURSIVE FuzzyTable(_, _)
FuzzyTable(family, k) ==
    IF k > Len(FONT_MAPPING) THEN Undefined
    ELSE IF Includes(family, FONT_MAPPING[k][1]) \/ Includes(FONT_MAPPING[k][1], family)
    THEN FONT_MAPPING[k][2]
    ELSE FuzzyTable(family, k + 1)

RECURSIVE FuzzyFigma(_, _)
FuzzyFigma(family, k) ==
    IF k > Len(FIGMA_FONTS) THEN Undefined
    ELSE IF Includes(ToLowerCase(family), ToLowerCase(FIGMA_FONTS[k]))
    THEN FIGMA_FONTS[k]
    ELSE FuzzyFigma(family, k + 1)

fuzzyMatchFont(family) ==
    IF FuzzyTable(family, 1) # Undefined THEN FuzzyTable(family, 1)
    ELSE FuzzyFigma(family, 1)

\* FONT_MAPPING[normalizedFamily]
TableLookup(family) ==
    IF \E k \in DOMAIN FONT_MAPPING : FONT_MAPPING[k][1] = family
    THEN FONT_MAPPING[CHOOSE k \in DOMAIN FONT_MAPPING : FONT_MAPPING[k][1] = family][2]
    ELSE Undefined

Inter == <<"I", "n", "t", "e", "r">>

\* FONT_MAPPING[normalizedFamily] || this.fuzzyMatchFont(normalizedFamily)
DirectOrFuzzy(direct, normalizedFamily) ==
    IF Set(direct) THEN direct ELSE fuzzyMatchFont(normalizedFamily)

\* ... || 'Inter'
OrInter(family) == IF Set(family) THEN family ELSE Inter

NormalizedFamily(normalizedFamily) ==
    OrInter(DirectOrFuzzy(TableLookup(normalizedFamily), normalizedFamily))

MapFamily(family) == NormalizedFamily(Trim(ToLowerCase(family)))

\* Math.floor in the place of Math.round
RoundFloor(x) == IF x.nan THEN NaN ELSE Num(x.n \div x.d)

\* Math.round(x): the integer nearest to x, halves rounded up.
Round(x) == IF x.nan THEN NaN ELSE Num((2 * x.n + x.d) \div (2 * x.d))

ClampWeight(weight) ==
    IF NumLt(weight, Num(MinWeight)) THEN Num(MinWeight)
    ELSE IF NumLt(Num(MaxWeight), weight) THEN Num(MaxWeight)
    ELSE weight

MapWeight(weight) == MulBy(Round(DivBy(ClampWeight(weight), WeightStep)), WeightStep)

Italic == <<"i", "t", "a", "l", "i", "c">>

Normal == <<"n", "o", "r", "m", "a", "l">>

mapToFigmaFont(fontInfo) ==
    [figmaFamily |-> MapFamily(fontInfo.family),
     figmaWeight |-> MapWeight(fontInfo.weight),
     figmaStyle  |-> IF fontInfo.style = Italic THEN Italic ELSE Normal]


MaxWeightDigits == 4

WeightDigits == {"0", "1", "5", "6", "9"}

WeightWords == {Normal, <<"b", "o", "l", "d">>, <<"B", "o", "l", "d">>,
                <<"l", "i", "g", "h", "t", "e", "r">>, <<"b", "o", "l", "d", "e", "r">>,
                <<"h", "e", "a", "v", "y">>, <<"-", "5", "0">>, <<"6", "5", "0", ".", "9">>,
                Undefined}

\* The font-weight values the runs draw from: every digit string of up to
\* MaxWeightDigits digits, the keywords, and a missing value.
FontWeights == SeqsUpTo(WeightDigits, MaxWeightDigits) \cup WeightWords

FontFamilies == {<<"A", "r", "i", "a", "l">>, <<"R", "o", "b", "o", "t", "o">>,
                 <<"z", "z">>}

FontArgs ==
    {[fontFamily |-> f, fontWeight |-> w, fontStyle |-> st] :
        f \in FontFamilies, w \in FontWeights, st \in {Italic, Normal}}

InitFont ==
    /\ pc = "start"
    /\ arg \in FontArgs
    /\ ret = NoRet
    /\ IdleDocument

\* getTextStyle builds the FontInfo: weight: this.parseFontWeight(styles.fontWeight)
ParseFontWeight ==
    /\ pc = "start"
    /\ pc' = "fontInfo"
    /\ ret' = Returned("parseFontWeight",
                       [family |-> arg.fontFamily,
                        weight |-> parseFontWeight(arg.fontWeight),
                        style  |-> arg.fontStyle])
    /\ UNCHANGED <<arg, html, css, cssRules, page, idx, selectThrows, parseThrows,
               warned, request, images, fonts, imageProcessor, imageCache,
               animations, sessions, heap, calls, browser>>

\* this.fontManager.mapToFigmaFont(fontInfo)
MapToFigmaFont ==
    /\ pc = "fontInfo"
    /\ pc' = "done"
    /\ ret' = [fn |-> "mapToFigmaFont", fontInfo |-> ret.value,
               value |-> mapToFigmaFont(ret.value)]
    /\ UNCHANGED <<arg, html, css, cssRules, page, idx, selectThrows, parseThrows,
               warned, request, images, fonts, imageProcessor, imageCache,
               animations, sessions, heap, calls, browser>>

NextFont == ParseFontWeight \/ MapToFigmaFont

SpecFont == InitFont /\ [][NextFont]_vars

Hundreds == {100 * k : k \in 1..9}

Abs(k) == IF k < 0 THEN -k ELSE k

Clamped(w) == IF w < 100 THEN 100 ELSE IF w > 900 THEN 900 ELSE w

\* C7: for every numeric input weight the mapped weight is a multiple of 100
\* within [100, 900], the input clamped to [100, 900] and rounded to the
\* nearest hundred (650 gives 700, 50 gives 100, 1000 gives 900); the
\* keywords go through the keyword table first (normal 400, bold 700).
C7_FontWeight ==
    pc = "done" =>
        LET w == ret.fontInfo.weight.n
            r == ret.value.figmaWeight.n
        IN  /\ ~ret.value.figmaWeight.nan /\ ret.value.figmaWeight.d = 1
            /\ r \in Hundreds
            /\ \A h \in Hundreds : Abs(r - Clamped(w)) <= Abs(h - Clamped(w))
            /\ Clamped(w) % 100 = 50 => r = Clamped(w) + 50
            /\ w = 650 => r = 700
            /\ w = 50 => r = 100
            /\ w = 1000 => r = 900
            /\ arg.fontWeight = Normal => r = 400
            /\ arg.fontWeight = <<"b", "o", "l", "d">> => r = 700

\* A weight between two hundreds was given, clamped and rounded.
C7_Witness ==
    /\ pc = "done"
    /\ arg.fontWeight = <<"6", "5", "0">>
    /\ ret.fontInfo.weight = Num(650)
    /\ ret.value.figmaWeight.n = 700


(***************************************************************************)
(* SelectorMatcher.getSelectorSpecificity                                  *)
(***************************************************************************)
IdWeight == 1000

ClassWeight == 100

Combinators == Whitespace \cup {">", "+", "~"}

\* selector.match(/#/g)
CountIn(s, cs) == Cardinality({i \in DOMAIN s : s[i] \in cs})

\* selector.match(/^[a-z]+|(?<=[\s>+~])[a-z]+/gi): the runs of letters that
\* start the string or follow a combinator character.
TagMatches(s) ==
    Cardinality({i \in DOMAIN s :
        /\ IsLetter(s[i])
        /\ (i = 1 \/ s[i - 1] \in Combinators)})

\* The tag matches left out of the sum
SpecificityWithoutTags(selector) ==
    CountIn(selector, {"#"}) * IdWeight
    + CountIn(selector, {".", ":", "["}) * ClassWeight

getSelectorSpecificity(selector) ==
    CountIn(selector, {"#"}) * IdWeight
    + CountIn(selector, {".", ":", "["}) * ClassWeight
    + TagMatches(selector)

MaxIds == 1

MaxClasses == 11

MaxTypes == 2

RECURSIVE Repeat(_, _)
Repeat(s, k) == IF k = 0 THEN <<>> ELSE s \o Repeat(s, k - 1)

\* A selector of t type components, c classes and i ids: "a a.b.b#c".
SelectorText(i, c, t) ==
    Join([k \in 1..t |-> <<"a">>], <<" ">>)
    \o Repeat(<<".", "b">>, c) \o Repeat(<<"#", "c">>, i)

SelectorArgs ==
    {[ids |-> i, classes |-> c, types |-> t, text |-> SelectorText(i, c, t)] :
        i \in 0..MaxIds, c \in 0..MaxClasses, t \in 0..MaxTypes}

InitSpecificity ==
    /\ pc = "start"
    /\ arg \in SelectorArgs \X SelectorArgs
    /\ ret = NoRet
    /\ IdleDocument

\* SelectorMatcher.getSelectorSpecificity on each of the two selectors
GetSelectorSpecificity ==
    /\ pc = "start"
    /\ pc' = "done"
    /\ ret' = Returned("getSelectorSpecificity",
                       <<getSelectorSpecificity(arg[1].text),
                         getSelectorSpecificity(arg[2].text)>>)
    /\ UNCHANGED <<arg, html, css, cssRules, page, idx, selectThrows, parseThrows,
               warned, request, images, fonts, imageProcessor, imageCache,
               animations, sessions, heap, calls, browser>>

NextSpecificity == GetSelectorSpecificity

SpecSpecificity == InitSpecificity /\ [][NextSpecificity]_vars

Counts(sel) == <<sel.ids, sel.classes, sel.types>>

OneMore(a, b) ==
    Counts(b) \in {<<a.ids + 1, a.classes, a.types>>,
                   <<a.ids, a.classes + 1, a.types>>,
                   <<a.ids, a.classes, a.types + 1>>}

\* specificity("#a") > specificity(".b") > specificity("div"), and one more
\* id, class or type component strictly increases the value.
BasicOrder ==
    /\ (Counts(arg[1]) = <<1, 0, 0>> /\ Counts(arg[2]) = <<0, 1, 0>>) => ret.value[1] > ret.value[2]
    /\ (Counts(arg[1]) = <<0, 1, 0>> /\ Counts(arg[2]) = <<0, 0, 1>>) => ret.value[1] > ret.value[2]
    /\ OneMore(arg[1], arg[2]) => ret.value[2] > ret.value[1]

\* C8 as stated: for all component counts a selector containing an id ranks
\* above every selector containing no id, and a selector containing a class
\* above every selector made of type components only.
C8_SpecificityOrder ==
    pc = "done" =>
        /\ BasicOrder
        /\ (arg[1].ids >= 1 /\ arg[2].ids = 0) => ret.value[1] > ret.value[2]
        /\ (arg[1].classes >= 1 /\ arg[2].ids = 0 /\ arg[2].classes = 0)
              => ret.value[1] > ret.value[2]

\* C8 amended: the order between the three levels holds as long as the lower
\* selector's components weigh less than one component of the higher level.
C8_SpecificityOrderBounded ==
    pc = "done" =>
        /\ BasicOrder
        /\ (/\ arg[1].ids >= 1
            /\ arg[2].ids = 0
            /\ ClassWeight * arg[2].classes + arg[2].types < IdWeight)
              => ret.value[1] > ret.value[2]
        /\ (/\ arg[1].classes >= 1
            /\ arg[2].ids = 0
            /\ arg[2].classes = 0
            /\ arg[2].types < ClassWeight)
              => ret.value[1] > ret.value[2]

\* An id selector was compared with a selector of nine classes and types.
C8_Witness ==
    /\ pc = "done"
    /\ Counts(arg[1]) = <<1, 0, 0>>
    /\ Counts(arg[2]) = <<0, 9, 2>>
    /\ ret.value = <<1000, 902>>


(***************************************************************************)
(* The document: cheerio's tree of elements.  Node 0 is body; the other    *)
(* nodes are numbered in document order and name their parent.  An         *)
(* attribute or property name is a one-token string.                       *)
(***************************************************************************)
Body == [tag |-> <<"b", "o", "d", "y">>, parent |-> 0,
         attrs |-> [x \in {} |-> {}], text |-> <<>>]

Element(doc, n) == IF n = 0 THEN Body ELSE doc[n]

\* $element.attr(name)
Attr(el, name) == IF name \in DOMAIN el.attrs THEN el.attrs[name] ELSE Undefined

\* $element.children(): the child elements, in document order
RECURSIVE ChildrenFrom(_, _, _)
ChildrenFrom(doc, n, k) ==
    IF k > Len(doc) THEN <<>>
    ELSE (IF doc[k].parent = n THEN <<k>> ELSE <<>>) \o ChildrenFrom(doc, n, k + 1)

Children(doc, n) == ChildrenFrom(doc, n, 1)

\* The elements above n, nearest first, body last.
RECURSIVE Ancestors(_, _)
Ancestors(doc, n) ==
    IF n = 0 THEN <<>> ELSE <<doc[n].parent>> \o Ancestors(doc, doc[n].parent)

SeqToSet(q) == {q[i] : i \in DOMAIN q}

(***************************************************************************)
(* SelectorMatcher.matches and its fallback simpleMatch                    *)
(***************************************************************************)
NameChars(s) == PrefixIn(s, {s[i] : i \in DOMAIN s} \ ({"#", ".", "[", ":", ","} \cup Combinators))

\* The simple selectors of one compound selector: a type name first, then
\* #id and .class parts; <<"?">> marks a part that is no simple selector.
RECURSIVE CompoundParts(_)
CompoundParts(c) ==
    IF c = <<>> THEN <<>>
    ELSE IF Head(c) \in {"#", "."}
    THEN LET name == NameChars(Tail(c))
         IN  IF name = <<>> THEN <<[kind |-> "?", name |-> <<>>]>>
             ELSE <<[kind |-> Head(c), name |-> name]>>
                  \o CompoundParts(SubSeq(c, Len(name) + 2, Len(c)))
    ELSE LET name == NameChars(c)
         IN  IF name = <<>> THEN <<[kind |-> "?", name |-> <<>>]>>
             ELSE <<[kind |-> "tag", name |-> name]>>
                  \o CompoundParts(SubSeq(c, Len(name) + 1, Len(c)))

\* The compound selectors of a selector and the combinators between them.
RECURSIVE SelectorSteps(_)
SelectorSteps(s) ==
    LET first == PrefixIn(s, {s[i] : i \in DOMAIN s} \ Combinators)
        rest  == SubSeq(s, Len(first) + 1, Len(s))
    IN  IF rest = <<>> THEN <<[comb |-> "", parts |-> CompoundParts(first)]>>
        ELSE <<[comb |-> Head(rest), parts |-> CompoundParts(first)]>>
             \o SelectorSteps(Tail(rest))

\* A selector css-select parses: compounds of type, id and class parts
\* joined by the descendant and child combinators.
Parses(s) ==
    /\ s # <<>>
    /\ \A k \in DOMAIN SelectorSteps(s) :
          LET step == SelectorSteps(s)[k]
          IN  /\ step.parts # <<>>
              /\ \A j \in DOMAIN step.parts :
                    /\ step.parts[j].kind # "?"
                    /\ step.parts[j].kind = "tag" => j = 1
              /\ step.comb \in {"", " ", ">"}

ClassList(el) ==
    IF Set(Attr(el, <<"class">>))
    THEN SeqToSet(SplitWhitespace(Attr(el, <<"class">>))) \ {<<>>}
    ELSE {}

\* $element.hasClass(name)
HasClass(el, name) == name \in ClassList(el)

PartMatches(el, part) ==
    CASE part.kind = "tag" -> ToLowerCase(part.name) = el.tag
      [] part.kind = "#"   -> Attr(el, <<"id">>) = part.name
      [] part.kind = "."   -> HasClass(el, part.name)
      [] OTHER -> FALSE

CompoundMatches(el, parts) == \A j \in DOMAIN parts : PartMatches(el, parts[j])

\* Whether node n matches the first k steps of the selector, step k on n.
RECURSIVE StepsMatch(_, _, _, _)
StepsMatch(doc, n, steps, k) ==
    /\ CompoundMatches(Element(doc, n), steps[k].parts)
    /\ \/ k = 1
       \/ /\ steps[k - 1].comb = ">"
          /\ n # 0
          /\ StepsMatch(doc, doc[n].parent, steps, k - 1)
       \/ /\ steps[k - 1].comb = " "
          /\ \E a \in SeqToSet(Ancestors(doc, n)) : StepsMatch(doc, a, steps, k - 1)

\* What selectOne(selector, [element], {adapter}) !== null stands for: the
\* element matches the selector.
SelectorMatches(doc, n, selector) ==
    StepsMatch(doc, n, SelectorSteps(selector), Len(SelectorSteps(selector)))

\* selector.slice(1).split(/[\s,>+~[.:]/)[0]
FirstName(s) == PrefixIn(s, {s[i] : i \in DOMAIN s} \ ({",", "[", ".", ":"} \cup Combinators))

RemoveQuotes(s) == 
    LET keep == {i \in DOMAIN s : s[i] \notin {"'", "\""}}
        RECURSIVE Pick(_)
        Pick(i) == IF i > Len(s) THEN <<>>
                   ELSE (IF i \in keep THEN <<s[i]>> ELSE <<>>) \o Pick(i + 1)
    IN  Pick(1)

\* The branch for /^\[([^\]]+)\]$/
AttributeMatch(el, selector) ==
    LET attr == SubSeq(selector, 2, Len(selector) - 1)
        pair == SplitOn(attr, "=")
    IN  IF Len(pair) > 1
        THEN Attr(el, RemoveQuotes(Trim(pair[1]))) = RemoveQuotes(Trim(pair[2]))
        ELSE Attr(el, attr) # Undefined

IsAttributeForm(selector) ==
    /\ Len(selector) >= 3
    /\ Head(selector) = "["
    /\ selector[Len(selector)] = "]"
    /\ \A i \in 2..(Len(selector) - 1) : selector[i] # "]"

simpleMatch(doc, n, selector) ==
    LET el == Element(doc, n)
    IN  IF StartsWith(selector, <<"#">>)
        THEN Attr(el, <<"id">>) = FirstName(Tail(selector))
        ELSE IF StartsWith(selector, <<".">>)
        THEN HasClass(el, FirstName(Tail(selector)))
        ELSE IF selector # <<>> /\ \A i \in DOMAIN selector : IsLetter(selector[i])
        THEN ToLowerCase(selector) = el.tag
        ELSE IF IsAttributeForm(selector)
        THEN AttributeMatch(el, selector)
        ELSE FALSE

\* try { selectOne(...) !== null } catch { simpleMatch(...) }: selectOne
\* raises on a selector it cannot parse, and in a build where it rejects the
\* adapter of createCheerioAdapter (which defines no removeSubsets).
matches(doc, n, selector, throws) ==
    IF throws \/ ~Parses(selector)
    THEN simpleMatch(doc, n, selector)
    ELSE SelectorMatches(doc, n, selector)


(***************************************************************************)
(* The stylesheet: css-tree's syntax tree, parseCssRules, computeStyles    *)
(***************************************************************************)
\* Nodes of a selector: a type, class or id selector, or a combinator.
TypeSelector(name) == [type |-> "TypeSelector", name |-> name]

ClassSelector(name) == [type |-> "ClassSelector", name |-> name]

IdSelector(name) == [type |-> "IdSelector", name |-> name]

Combinator(name) == [type |-> "Combinator", name |-> name]

\* Nodes of a value: c.value || c.name || '' reads value first, then name.
Identifier(name) == [type |-> "Identifier", name |-> name, value |-> Undefined]

Declaration(property, value) ==
    [type |-> "Declaration", property |-> property, value |-> value]

Rule(prelude, block) == [type |-> "Rule", prelude |-> prelude, block |-> block]

\* c.name || c.value || ''
NameOrValue(c) ==
    IF Set(c.name) THEN c.name
    ELSE IF "value" \in DOMAIN c /\ Set(c.value) THEN c.value
    ELSE <<>>

\* c.value || c.name || ''
ValueOrName(c) ==
    IF Set(c.value) THEN c.value
    ELSE IF Set(c.name) THEN c.name
    ELSE <<>>

Concat(parts) == Join(parts, <<>>)

\* prelude.children is the selector list; each Selector's nodes are
\* concatenated, the selectors of the list are joined by a space.
selectorToString(prelude) ==
    Join([k \in DOMAIN prelude |->
            Concat([j \in DOMAIN prelude[k] |-> NameOrValue(prelude[k][j])])],
         <<" ">>)

valueToString(value) ==
    Join([k \in DOMAIN value |-> ValueOrName(value[k])], <<" ">>)

\* declarations[property] = value, for each declaration of the block in order
RECURSIVE BlockDeclarations(_, _)
BlockDeclarations(block, declarations) ==
    IF block = <<>> THEN declarations
    ELSE BlockDeclarations(
            Tail(block),
            IF Head(block).type = "Declaration"
            THEN (Head(block).property :> valueToString(Head(block).value))
                 @@ declarations
            ELSE declarations)

EmptyObject == [x \in {} |-> {}]

\* Map.prototype.set: a key already in the map keeps its place and takes the
\* new value; a new key goes last.
MapSet(map, key, value) ==
    IF \E k \in DOMAIN map : map[k].selector = key
    THEN [k \in DOMAIN map |->
            IF map[k].selector = key
            THEN [selector |-> key, declarations |-> value]
            ELSE map[k]]
    ELSE Append(map, [selector |-> key, declarations |-> value])

RECURSIVE ParseRules(_, _)
ParseRules(ast, rules) ==
    IF ast = <<>> THEN rules
    ELSE LET node     == Head(ast)
             selector == selectorToString(node.prelude)
         IN  ParseRules(
                Tail(ast),
                IF node.type = "Rule" /\ selector # <<>>
                THEN MapSet(rules, selector,
                            BlockDeclarations(node.block, EmptyObject))
                ELSE rules)

\* A selector list that raises only when it holds more than one selector
JoinRaisesOnMany(children, throws) == throws = "join" /\ Len(children) > 1

\* children.map(...).join(...): css-tree gives the children of a node as a
\* List, whose map returns a List, and a List has no join.  In a build
\* where that holds the call raises a TypeError whatever the children are.
JoinRaises(children, throws) == throws = "join"

\* The body of the try block from the node Head(ast) on: the rules the Map
\* holds when the block ends, and whether an exception ended it.  In a rule
\* selectorToString(node.prelude) is the first call that can raise.
RECURSIVE TryParseRules(_, _, _)
TryParseRules(ast, rules, throws) ==
    IF ast = <<>> THEN [raised |-> FALSE, rules |-> rules]
    ELSE IF Head(ast).type = "Rule" /\ JoinRaises(Head(ast).prelude, throws)
    THEN [raised |-> TRUE, rules |-> rules]
    ELSE TryParseRules(Tail(ast), ParseRules(<<Head(ast)>>, rules), throws)

\* const rules = new Map(); try { const ast = parseCss(css); ... } catch
\* (error) { console.warn(...) } return rules
TryParseCss(ast, throws) ==
    IF throws = "parse" THEN [raised |-> TRUE, rules |-> <<>>]
    ELSE TryParseRules(ast, <<>>, throws)

parseCssRules(ast, throws) == TryParseCss(ast, throws).rules

\* Object.assign(styles, declarations)
Assign(styles, declarations) == declarations @@ styles

RECURSIVE ApplyRules(_, _, _, _, _)
ApplyRules(doc, n, rules, styles, throws) ==
    IF rules = <<>> THEN styles
    ELSE ApplyRules(doc, n, Tail(rules),
                    IF matches(doc, n, Head(rules).selector, throws)
                    THEN Assign(styles, Head(rules).declarations)
                    ELSE styles,
                    throws)

\* const [property, value] = rule.split(':').map((s) => s.trim())
RECURSIVE ApplyInline(_, _)
ApplyInline(pieces, styles) ==
    IF pieces = <<>> THEN styles
    ELSE LET pair     == SplitOn(Head(pieces), ":")
             property == Trim(pair[1])
             value    == IF Len(pair) > 1 THEN Trim(pair[2]) ELSE Undefined
         IN  ApplyInline(Tail(pieces),
                         IF Set(property) /\ Set(value)
                         THEN (property :> value) @@ styles
                         ELSE styles)

InlineStyles(el, styles) ==
    IF Set(Attr(el, <<"style">>))
    THEN ApplyInline(SplitOn(Attr(el, <<"style">>), ";"), styles)
    ELSE styles

computeStyles(doc, n, rules, parentStyles, throws) ==
    InlineStyles(Element(doc, n), ApplyRules(doc, n, rules, parentStyles, throws))


(***************************************************************************)
(* Runs of the cascade: parseCssRules on the stylesheet, then computeStyles *)
(* for an element and for its first child, as convertElement calls it.     *)
(***************************************************************************)
MaxRules == 3

Background == <<"background">>

Red == <<"red">>

Blue == <<"blue">>

Green == <<"green">>

TagDiv == <<"d", "i", "v">>

TagP == <<"p">>

\* p, P, div p and #x
Preludes ==
    {<<<<TypeSelector(TagP)>>>>,
     <<<<TypeSelector(<<"P">>)>>>>,
     <<<<TypeSelector(TagDiv), Combinator(<<" ">>), TypeSelector(TagP)>>>>,
     <<<<IdSelector(<<"x">>)>>>>}

Blocks ==
    {<<Declaration(Background, <<Identifier(v)>>)>> : v \in {Red, Blue, Green}}

RulePool == {Rule(prelude, block) : prelude \in Preludes, block \in Blocks}

Stylesheets == SeqsUpTo(RulePool, MaxRules)

\* <div><p id="x" style=...>text</p></div>
CascadeDocument(inline) ==
    <<[tag |-> TagDiv, parent |-> 0, attrs |-> EmptyObject, text |-> <<>>],
      [tag |-> TagP, parent |-> 1,
       attrs |-> (<<"id">> :> <<"x">>) @@ (<<"style">> :> inline),
       text |-> <<"H", "i">>]>>

FirstCall == [node |-> 1, parentStyles |-> EmptyObject]

InitCascade ==
    /\ pc = "start"
    /\ css \in Stylesheets
    /\ html \in {CascadeDocument(inline) :
                    inline \in {<<>>, <<"background", ":", "red">>}}
    /\ selectThrows \in BOOLEAN
    /\ arg = FirstCall
    /\ ret = NoRet
    /\ cssRules = <<>>
    /\ page = <<>>
    /\ idx = 0
    /\ parseThrows = "never"
    /\ warned = FALSE
    /\ request = NoRequest
    /\ images = <<>>
    /\ fonts = <<>>
    /\ imageProcessor = FALSE
    /\ imageCache = <<>>
    /\ animations = {}
    /\ sessions = <<>>
    /\ heap = <<>>
    /\ calls = <<>>
    /\ browser = FALSE

\* const cssRules = this.parseCssRules(css)
ParseCssRules ==
    /\ pc = "start"
    /\ pc' = "parsed"
    /\ cssRules' = parseCssRules(css, parseThrows)
    /\ warned' = TryParseCss(css, parseThrows).raised
    /\ UNCHANGED <<arg, ret, html, css, page, idx, selectThrows, parseThrows,
               request, images, fonts, imageProcessor, imageCache,
               animations, sessions, heap, calls, browser>>

\* convertElement: const computedStyles = this.computeStyles($element,
\* cssRules, parentStyles); the first child is converted next, with
\* computedStyles as its parentStyles.
ComputeStyles ==
    /\ pc = "parsed"
    /\ LET styles == computeStyles(html, arg.node, cssRules, arg.parentStyles,
                                   selectThrows)
           kids   == Children(html, arg.node)
       IN  /\ ret' = [fn |-> "computeStyles", node |-> arg.node,
                      parentStyles |-> arg.parentStyles, value |-> styles]
           /\ IF kids = <<>>
              THEN pc' = "done" /\ arg' = arg
              ELSE pc' = "parsed"
                   /\ arg' = [node |-> kids[1], parentStyles |-> styles]
    /\ UNCHANGED <<html, css, cssRules, page, idx, selectThrows, parseThrows,
               warned, request, images, fonts, imageProcessor, imageCache,
               animations, sessions, heap, calls, browser>>

NextCascade == ParseCssRules \/ ComputeStyles

SpecCascade == InitCascade /\ [][NextCascade]_vars

\* The text of a selector as the stylesheet writes it.
SourceCompound(c) ==
    CASE c.type = "ClassSelector" -> <<".">> \o c.name
      [] c.type = "IdSelector" -> <<"#">> \o c.name
      [] OTHER -> c.name

SelectorSource(prelude) ==
    Join([k \in DOMAIN prelude |->
            Concat([j \in DOMAIN prelude[k] |-> SourceCompound(prelude[k][j])])],
         <<",">>)

PropertyNames == {"background", "color"}

\* The values of the runs that CSS accepts: a keyword, or a url() holding an
\* absolute address.
CssValues == {<<"red">>, <<"url(http", ":", "//x)">>}

\* The declarations a style attribute makes: ;-separated property:value
\* pairs, the value being all that follows the first colon.
RECURSIVE AttributeDeclarations(_, _)
AttributeDeclarations(pieces, declared) ==
    IF pieces = <<>> THEN declared
    ELSE LET property == Trim(PrefixIn(Head(pieces),
                                       SeqToSet(Head(pieces)) \ {":"}))
             colon    == Len(PrefixIn(Head(pieces), SeqToSet(Head(pieces)) \ {":"})) + 1
             value    == Trim(SubSeq(Head(pieces), colon + 1, Len(Head(pieces))))
         IN  AttributeDeclarations(
                Tail(pieces),
                IF colon <= Len(Head(pieces)) /\ Len(property) = 1
                   /\ property[1] \in PropertyNames /\ value \in CssValues
                THEN (property :> value) @@ declared
                ELSE declared)

InlineDeclared(el) ==
    IF Set(Attr(el, <<"style">>))
    THEN AttributeDeclarations(SplitOn(Attr(el, <<"style">>), ";"), EmptyObject)
    ELSE EmptyObject

\* The rules of the stylesheet, by position, whose selector matches node n
\* and which declare property q.
MatchingRules(n, q) ==
    {i \in DOMAIN css :
        /\ css[i].type = "Rule"
        /\ matches(html, n, selectorToString(css[i].prelude), selectThrows)
        /\ q \in DOMAIN BlockDeclarations(css[i].block, EmptyObject)}

DeclaredBy(i, q) == BlockDeclarations(css[i].block, EmptyObject)[q]

Max(S) == CHOOSE x \in S : \A y \in S : y <= x

Properties == {Background}

Resolved == pc \in {"parsed", "done"} /\ ret.fn = "computeStyles"

\* C1: when two or more rules match the node and declare p, and the node has
\* no inline p, the resolved value of p is the one of the matching rule that
\* comes last in the stylesheet.
C1_LaterRuleWins ==
    Resolved =>
        \A q \in Properties :
            (/\ Cardinality(MatchingRules(ret.node, q)) >= 2
             /\ q \notin DOMAIN InlineDeclared(Element(html, ret.node)))
            => /\ q \in DOMAIN ret.value
               /\ ret.value[q] = DeclaredBy(Max(MatchingRules(ret.node, q)), q)

RuleSpecificity(i) == getSelectorSpecificity(SelectorSource(css[i].prelude))

\* The matching rule that wins: the highest specificity, and among rules of
\* that specificity the last one.
Winner(S) ==
    CHOOSE i \in S :
        \A j \in S :
            \/ RuleSpecificity(j) < RuleSpecificity(i)
            \/ (RuleSpecificity(j) = RuleSpecificity(i) /\ j <= i)

\* C9: between two matching rules that declare the same property the one of
\* higher specificity wins even when it comes earlier; source order decides
\* only between rules of equal specificity.
C9_SpecificityBreaksTies ==
    Resolved =>
        \A q \in Properties :
            (/\ Cardinality(MatchingRules(ret.node, q)) >= 2
             /\ q \notin DOMAIN InlineDeclared(Element(html, ret.node)))
            => /\ q \in DOMAIN ret.value
               /\ ret.value[q] = DeclaredBy(Winner(MatchingRules(ret.node, q)), q)


(***************************************************************************)
(* Runs of the cascade over style attributes                               *)
(***************************************************************************)
MaxInline == 5

InlineTokens == {"background", "color", ":", ";", "red", "url(http", "//x)"}

InlineTexts == SeqsUpTo(InlineTokens, MaxInline)

InlineSheets ==
    {<<>>, <<Rule(<<<<TypeSelector(TagP)>>>>,
                  <<Declaration(Background, <<Identifier(Blue)>>)>>)>>}

InitInline ==
    /\ pc = "start"
    /\ css \in InlineSheets
    /\ html \in {CascadeDocument(inline) : inline \in InlineTexts}
    /\ selectThrows \in BOOLEAN
    /\ arg = FirstCall
    /\ ret = NoRet
    /\ cssRules = <<>>
    /\ page = <<>>
    /\ idx = 0
    /\ parseThrows = "never"
    /\ warned = FALSE
    /\ request = NoRequest
    /\ images = <<>>
    /\ fonts = <<>>
    /\ imageProcessor = FALSE
    /\ imageCache = <<>>
    /\ animations = {}
    /\ sessions = <<>>
    /\ heap = <<>>
    /\ calls = <<>>
    /\ browser = FALSE

SpecInline == InitInline /\ [][NextCascade]_vars

\* C2: a property declared in the element's style attribute resolves to the
\* value the attribute gives it, whatever the stylesheet rules say.
C2_InlineWins ==
    Resolved =>
        \A q \in DOMAIN InlineDeclared(Element(html, ret.node)) :
            /\ q \in DOMAIN ret.value
            /\ ret.value[q] = InlineDeclared(Element(html, ret.node))[q]


(***************************************************************************)
(* SvgConverter                                                            *)
(***************************************************************************)
ToUpperChar(c) ==
    CASE c = "a" -> "A" [] c = "b" -> "B" [] c = "c" -> "C" [] c = "d" -> "D"
      [] c = "e" -> "E" [] c = "f" -> "F" [] c = "g" -> "G" [] c = "h" -> "H"
      [] c = "i" -> "I" [] c = "j" -> "J" [] c = "k" -> "K" [] c = "l" -> "L"
      [] c = "m" -> "M" [] c = "n" -> "N" [] c = "o" -> "O" [] c = "p" -> "P"
      [] c = "q" -> "Q" [] c = "r" -> "R" [] c = "s" -> "S" [] c = "t" -> "T"
      [] c = "u" -> "U" [] c = "v" -> "V" [] c = "w" -> "W" [] c = "x" -> "X"
      [] c = "y" -> "Y" [] c = "z" -> "Z" [] OTHER -> c

ToUpperCase(s) == [i \in DOMAIN s |-> ToUpperChar(s[i])]

\* x - y
Minus(x, y) ==
    IF x.nan \/ y.nan THEN NaN ELSE Frac(x.n * y.d - y.n * x.d, x.d * y.d)

TagSvg == <<"s", "v", "g">>

TagPath == <<"p", "a", "t", "h">>

None == <<"n", "o", "n", "e">>

isSvgElement(tagName) == ToLowerCase(tagName) = TagSvg

\* null of parseLength is written NaN: both are falsy.
NumberOrNull(value, num) ==
    IF IsNaN(num) THEN NaN
    ELSE IF Includes(value, <<"%">>) THEN NaN
    ELSE num

parseLength(value) ==
    IF ~Set(value) THEN NaN ELSE NumberOrNull(value, ParseFloat(value))

pathToVectorPath(pathData) == [path |-> pathData, windingRule |-> "NONZERO"]

\* The elements of the subtree of n, n excluded, in document order.
RECURSIVE Descendants(_, _)
RECURSIVE DescendantsOfAll(_, _)
DescendantsOfAll(doc, kids) ==
    IF kids = <<>> THEN <<>>
    ELSE <<Head(kids)>> \o Descendants(doc, Head(kids))
         \o DescendantsOfAll(doc, Tail(kids))

Descendants(doc, n) == DescendantsOfAll(doc, Children(doc, n))

\* $svg.find('path'), each path with a d attribute
RECURSIVE PathsOf(_, _)
PathsOf(doc, found) ==
    IF found = <<>> THEN <<>>
    ELSE (IF doc[Head(found)].tag = TagPath /\ Set(Attr(doc[Head(found)], <<"d">>))
          THEN <<pathToVectorPath(doc[Head(found)].attrs[<<"d">>])>>
          ELSE <<>>)
         \o PathsOf(doc, Tail(found))

extractPaths(doc, n) == PathsOf(doc, Descendants(doc, n))

\* viewBox.split(/\s+|,/): a run of white space or one comma separates.
RECURSIVE SplitViewBox(_, _, _)
SplitViewBox(s, pieces, inSpace) ==
    IF s = <<>> THEN pieces
    ELSE IF Head(s) \in Whitespace
    THEN SplitViewBox(Tail(s), IF inSpace THEN pieces ELSE Append(pieces, <<>>), TRUE)
    ELSE IF Head(s) = ","
    THEN SplitViewBox(Tail(s), Append(pieces, <<>>), FALSE)
    ELSE SplitViewBox(Tail(s),
                      [pieces EXCEPT ![Len(pieces)] = @ \o <<Head(s)>>], FALSE)

\* [x, y, w, h] = viewBox.split(...).map(parseFloat); a missing piece is
\* undefined, falsy as NaN is.
FirstFour(pieces) ==
    [k \in 1..4 |-> IF k <= Len(pieces) THEN ParseFloat(pieces[k]) ELSE NaN]

ViewBoxNumbers(viewBox) == FirstFour(SplitViewBox(viewBox, <<<<>>>>, FALSE))

\* fill, stroke, stroke-width and opacity, of the svg element or of a child
PaintProps(props) ==
    (IF Set(Get(props, <<"fill">>)) /\ props[<<"fill">>] # None
     THEN "fills" :> <<parseColor(props[<<"fill">>])>>
     ELSE NoProps)
    @@
    (IF Set(Get(props, <<"stroke">>)) /\ props[<<"stroke">>] # None
     THEN ("strokes" :> <<parseColor(props[<<"stroke">>])>>)
          @@ ("strokeWeight" :>
                 (IF Set(Get(props, <<"stroke-width">>))
                  THEN ParseFloat(props[<<"stroke-width">>]) ELSE Num(1)))
     ELSE NoProps)
    @@
    (IF Set(Get(props, <<"opacity">>))
     THEN "opacity" :> ParseFloat(props[<<"opacity">>])
     ELSE NoProps)

\* props.k ? parseFloat(props.k) : 0
FloatOrZero(props, k) ==
    IF Set(Get(props, k)) THEN ParseFloat(props[k]) ELSE Num(0)

RectProps(props) ==
    ("width" :> FloatOrZero(props, <<"width">>))
    @@ ("height" :> FloatOrZero(props, <<"height">>))
    @@ ("x" :> FloatOrZero(props, <<"x">>))
    @@ ("y" :> FloatOrZero(props, <<"y">>))

CircleBox(r, cx, cy) ==
    ("width" :> MulBy(r, 2)) @@ ("height" :> MulBy(r, 2))
    @@ ("x" :> Minus(cx, r)) @@ ("y" :> Minus(cy, r))

CircleProps(props) ==
    CircleBox(FloatOrZero(props, <<"r">>), FloatOrZero(props, <<"cx">>),
              FloatOrZero(props, <<"cy">>))

\* The children svg-parser gives an element: its child elements, and a text
\* child when its text is not blank.
HasParsedChildren(doc, k) == Children(doc, k) # <<>> \/ Trim(doc[k].text) # <<>>

\* convertSvgChildren makes a node of every child of type 'element'.  The
\* field src of a node is the element it was built from; it is not part of
\* the output.
RECURSIVE convertSvgChildElement(_, _)
RECURSIVE convertSvgChildren(_, _)
convertSvgChildren(doc, kids) ==
    IF kids = <<>> THEN <<>>
    ELSE <<convertSvgChildElement(doc, Head(kids))>>
         \o convertSvgChildren(doc, Tail(kids))

convertSvgChildElement(doc, k) ==
    LET tagName == ToLowerCase(doc[k].tag)
        props   == doc[k].attrs
    IN  (IF HasParsedChildren(doc, k)
         THEN "children" :> convertSvgChildren(doc, Children(doc, k))
         ELSE NoProps)
        @@ (IF tagName = <<"c", "i", "r", "c", "l", "e">> THEN CircleProps(props)
            ELSE NoProps)
        @@ (IF tagName = <<"r", "e", "c", "t">> THEN RectProps(props) ELSE NoProps)
        @@ (IF tagName = TagPath /\ Set(Get(props, <<"d">>))
            THEN "vectorPaths" :> <<pathToVectorPath(props[<<"d">>])>>
            ELSE NoProps)
        @@ PaintProps(props)
        @@ ("type" :> (IF tagName = <<"g">> THEN "GROUP" ELSE "VECTOR"))
        @@ ("name" :> ToUpperCase(tagName))
        @@ ("src" :> k)


\* What parseSVG(`<svg>${$svg.html()}</svg>`) gives when it returns: a root
\* whose one child is the wrapping svg element, without attributes, holding
\* the content of the svg element.
WrapperNode(doc, n) ==
    (IF HasParsedChildren(doc, n)
     THEN "children" :> convertSvgChildren(doc, Children(doc, n))
     ELSE NoProps)
    @@ ("type" :> "VECTOR") @@ ("name" :> ToUpperCase(TagSvg)) @@ ("src" :> n)

DefaultLength == <<"1", "0", "0">>

DefaultFill == <<"#", "0", "0", "0", "0", "0", "0">>

\* x || fallback, for a string
Or(x, fallback) == IF Set(x) THEN x ELSE fallback

BoxProps(viewBox, box) ==
    IF Set(viewBox) /\ Truthy(box[3]) /\ Truthy(box[4])
    THEN ("width" :> box[3]) @@ ("height" :> box[4])
         @@ ("x" :> OrZero(box[1])) @@ ("y" :> OrZero(box[2]))
    ELSE NoProps

LengthProps(width, height) ==
    IF Truthy(width) /\ Truthy(height)
    THEN ("width" :> width) @@ ("height" :> height)
    ELSE NoProps

SvgSize(el) ==
    BoxProps(Attr(el, <<"viewBox">>), ViewBoxNumbers(Attr(el, <<"viewBox">>)))
    @@ LengthProps(parseLength(Or(Attr(el, <<"width">>), DefaultLength)),
                   parseLength(Or(Attr(el, <<"height">>), DefaultLength)))

Raised == [raised |-> TRUE]

IsRaised(node) == "raised" \in DOMAIN node

\* paths.length > 0 ? { vectorPaths: paths } : {}
VectorPaths(paths) == IF paths # <<>> THEN "vectorPaths" :> paths ELSE NoProps

\* The body of the try block of convertSvgElement.  parseSVG raises on
\* markup it does not accept; the element's field parses tells whether it
\* accepts this element's.
TryConvertSvg(doc, n) ==
    IF ~doc[n].parses THEN Raised
    ELSE VectorPaths(extractPaths(doc, n))
         @@ ("children" :> <<WrapperNode(doc, n)>>)
         @@ PaintProps((<<"fill">> :> Or(Attr(doc[n], <<"fill">>), DefaultFill))
                       @@ doc[n].attrs)
         @@ SvgSize(doc[n])
         @@ ("type" :> "VECTOR") @@ ("name" :> ToUpperCase(TagSvg))
         @@ ("src" :> n)

PlaceholderSize == 100

PlaceholderGrey == Rgba(Frac(8, 10), Frac(8, 10), Frac(8, 10), Num(1))

Placeholder(n) ==
    ("type" :> "VECTOR") @@ ("name" :> ToUpperCase(TagSvg))
    @@ ("width" :> Num(PlaceholderSize)) @@ ("height" :> Num(PlaceholderSize))
    @@ ("fills" :> <<PlaceholderGrey>>) @@ ("src" :> n)

Null == [null |-> TRUE]

IsNull(node) == "null" \in DOMAIN node

\* convertSvgElement without its catch clause
convertSvgElementNoCatch(doc, n) ==
    IF ToLowerCase(doc[n].tag) # TagSvg THEN Null ELSE TryConvertSvg(doc, n)

\* try { ... } catch (error) { return the placeholder }
Caught(result, n) == IF IsRaised(result) THEN Placeholder(n) ELSE result

convertSvgElement(doc, n) ==
    IF ToLowerCase(doc[n].tag) # TagSvg THEN Null
    ELSE Caught(TryConvertSvg(doc, n), n)


(***************************************************************************)
(* FigmaConverter.convertElement and htmlToFigma                           *)
(***************************************************************************)
FilteredTags ==
    {<<"s", "c", "r", "i", "p", "t">>, <<"s", "t", "y", "l", "e">>,
     <<"m", "e", "t", "a">>, <<"l", "i", "n", "k">>,
     <<"t", "i", "t", "l", "e">>, <<"h", "e", "a", "d">>}

TextTags ==
    {<<"h", "1">>, <<"h", "2">>, <<"h", "3">>, <<"h", "4">>, <<"h", "5">>,
     <<"h", "6">>, <<"p">>, <<"s", "p", "a", "n">>, <<"a">>,
     <<"l", "a", "b", "e", "l">>}

TagImg == <<"i", "m", "g">>

\* Every element a FRAME
FrameType(tagName, styles) == "FRAME"

getElementType(tagName, styles) ==
    IF isSvgElement(tagName) THEN "VECTOR"
    ELSE IF tagName \in TextTags THEN "TEXT"
    ELSE IF tagName = TagImg THEN "RECTANGLE"
    ELSE "FRAME"

parseLineHeight(height) ==
    IF ~Set(height) THEN [unit |-> "AUTO"]
    ELSE IF height = Normal THEN [unit |-> "AUTO"]
    ELSE IF EndsWith(height, <<"p", "x">>)
    THEN [unit |-> "PIXELS", value |-> ParseFloat(height)]
    ELSE [unit |-> "PERCENT", value |-> MulBy(ParseFloat(height), 100)]

parseLetterSpacing(spacing) ==
    IF ~Set(spacing) THEN [unit |-> "PIXELS", value |-> Num(0)]
    ELSE [unit |-> "PIXELS", value |-> OrZero(ParseFloat(spacing))]

DefaultFontSize == 16

\* x || 16
OrDefaultSize(x) == IF Truthy(x) THEN x ELSE Num(DefaultFontSize)

\* parseFloat(styles.fontSize) || 16
FontSize(styles) == OrDefaultSize(ParseFloat(Get(styles, <<"fontSize">>)))

\* this.fonts.get(fontKey) || { family, weight, style, size }
FontInfo(fontFamily, weight, fontStyle, size) ==
    IF <<fontFamily, weight, fontStyle>> \in DOMAIN fonts
    THEN fonts[<<fontFamily, weight, fontStyle>>]
    ELSE [family |-> fontFamily, weight |-> weight, style |-> fontStyle,
          size |-> size]

TextStyle(styles, size, mapping) ==
    [fontFamily    |-> mapping.figmaFamily,
     fontSize      |-> size,
     fontWeight    |-> mapping.figmaWeight,
     fontStyle     |-> mapping.figmaStyle,
     lineHeight    |-> parseLineHeight(Get(styles, <<"lineHeight">>)),
     letterSpacing |-> parseLetterSpacing(Get(styles, <<"letterSpacing">>))]

SizedTextStyle(styles, size) ==
    TextStyle(styles, size,
              mapToFigmaFont(FontInfo(Or(Get(styles, <<"fontFamily">>), Inter),
                                      parseFontWeight(Get(styles, <<"fontWeight">>)),
                                      Or(Get(styles, <<"fontStyle">>), Normal),
                                      size)))

getTextStyle(styles) == SizedTextStyle(styles, FontSize(styles))

\* image.width || parseSize($img.attr(name) || '100', maxSize)
ImageLength(el, image, name, size, maxSize) ==
    IF Truthy(size) THEN size
    ELSE parseSize(Or(Attr(el, name), DefaultLength), maxSize)

\* ImageProcessor.imageToBase64, for an image whose data is base64 text
imageToBase64(image) ==
    <<"data:">> \o image.mimeType \o <<";base64,">> \o image.data

\* this.imageProcessor?.imageToBase64(image) || '': this.imageProcessor is
\* null in a converter that setImageProcessor was not called on.
Base64(image) == IF imageProcessor THEN imageToBase64(image) ELSE <<>>

createImageNode(el, image, styles, viewport) ==
    ("type" :> "RECTANGLE")
    @@ ("name" :> Or(Attr(el, <<"alt">>), <<"I", "m", "a", "g", "e">>))
    @@ ("width" :> ImageLength(el, image, <<"width">>, image.width, viewport.width))
    @@ ("height" :> ImageLength(el, image, <<"height">>, image.height, viewport.height))
    @@ ("fills" :> <<[type |-> "IMAGE", imageHash |-> Base64(image),
                      scaleMode |-> "FILL"]>>)
    @@ ("opacity" :> (IF Set(Get(styles, <<"opacity">>))
                      THEN ParseFloat(styles[<<"opacity">>]) ELSE Num(1)))

\* $element.text(): the text of the element and of its descendants.  An
\* element's own text comes before its child elements.
RECURSIVE TextOf(_, _)
RECURSIVE TextOfAll(_, _)
TextOfAll(doc, kids) ==
    IF kids = <<>> THEN <<>>
    ELSE TextOf(doc, Head(kids)) \o TextOfAll(doc, Tail(kids))

TextOf(doc, n) == doc[n].text \o TextOfAll(doc, Children(doc, n))

\* The fills, cornerRadius and opacity convertElement sets from the styles.
StyleProps(styles, type) ==
    (IF Set(Get(styles, <<"color">>)) /\ type = "TEXT"
     THEN "fills" :> <<colorToFigma(styles[<<"color">>])>>
     ELSE IF Set(Get(styles, <<"backgroundColor">>))
     THEN "fills" :> <<colorToFigma(styles[<<"backgroundColor">>])>>
     ELSE NoProps)
    @@
    (IF Set(Get(styles, <<"borderRadius">>))
     THEN "cornerRadius" :> ParseFloat(styles[<<"borderRadius">>])
     ELSE NoProps)
    @@
    (IF Get(styles, <<"opacity">>) # Undefined
     THEN "opacity" :> ParseFloat(styles[<<"opacity">>])
     ELSE NoProps)

\* children.filter((c) => c.type === 'TEXT').map((c) => c.characters).join('')
RECURSIVE MergedCharacters(_)
MergedCharacters(children) ==
    IF children = <<>> THEN <<>>
    ELSE (IF Head(children)["type"] = "TEXT" /\ "characters" \in DOMAIN Head(children)
          THEN Head(children)["characters"] ELSE <<>>)
         \o MergedCharacters(Tail(children))


\* children.length === 0 && text: the element gets one TEXT child holding
\* its trimmed text.
TextChild(text, styles) ==
    ("type" :> "TEXT") @@ ("characters" :> text)
    @@ ("style" :> getTextStyle(styles))

ChildrenOrText(nodes, text, styles) ==
    IF nodes = <<>> /\ text # <<>> THEN <<TextChild(text, styles)>> ELSE nodes

\* The mutant of Node: node.children = children for a TEXT node as well.
NodeWithChildren(n, tagName, type, styles, viewport, children) ==
    (IF children = <<>> THEN NoProps
     ELSE IF type = "TEXT"
     THEN ("characters" :> MergedCharacters(children)) @@ ("children" :> children)
     ELSE "children" :> children)
    @@ StyleProps(styles, type)
    @@ ("name" :> tagName) @@ ("type" :> type)
    @@ getLayoutProperties(styles, viewport)
    @@ ("src" :> n)

\* The node of an element that is neither filtered, svg nor a known image.
Node(n, tagName, type, styles, viewport, children) ==
    (IF children = <<>> THEN NoProps
     ELSE IF type = "TEXT" THEN "characters" :> MergedCharacters(children)
     ELSE "children" :> children)
    @@ StyleProps(styles, type)
    @@ ("name" :> tagName) @@ ("type" :> type)
    @@ getLayoutProperties(styles, viewport)
    @@ ("src" :> n)

\* An exception in the conversion of a child leaves convertElement.
NodeOver(doc, n, styles, viewport, converted) ==
    IF converted.raised THEN Raised
    ELSE Node(n, ToLowerCase(doc[n].tag),
              getElementType(ToLowerCase(doc[n].tag), styles), styles, viewport,
              ChildrenOrText(converted.nodes, Trim(TextOf(doc, n)), styles))

\* if (svgNode) return { ...svgNode, name: id || class || 'SVG' }
NamedSvg(el, svgNode) ==
    IF IsRaised(svgNode) THEN Raised
    ELSE ("name" :> Or(Or(Attr(el, <<"id">>), Attr(el, <<"class">>)),
                       ToUpperCase(TagSvg)))
         @@ svgNode

\* The conversion of element n with the styles of its parent: a node, Null,
\* or Raised when an exception leaves it.  ConvertChildren gives the nodes of
\* the children that have one, and whether a child raised.
RECURSIVE convertElement(_, _, _, _, _, _)
RECURSIVE ConvertChildren(_, _, _, _, _, _)
AddChild(child, rest) ==
    IF IsRaised(child) THEN [raised |-> TRUE, nodes |-> <<>>]
    ELSE IF IsNull(child) THEN rest
    ELSE [raised |-> rest.raised, nodes |-> <<child>> \o rest.nodes]

ConvertChildren(doc, kids, rules, viewport, parentStyles, throws) ==
    IF kids = <<>> THEN [raised |-> FALSE, nodes |-> <<>>]
    ELSE AddChild(convertElement(doc, Head(kids), rules, viewport,
                                 parentStyles, throws),
                  ConvertChildren(doc, Tail(kids), rules, viewport,
                                  parentStyles, throws))

\* convertElement once the computed styles of the element are known.  An
\* svg element always gets a node from convertSvgElement.
ConvertStyled(doc, n, rules, viewport, computedStyles, throws) ==
    IF isSvgElement(ToLowerCase(doc[n].tag))
    THEN NamedSvg(doc[n], convertSvgElement(doc, n))
    ELSE IF /\ ToLowerCase(doc[n].tag) = TagImg
            /\ Set(Attr(doc[n], <<"src">>))
            /\ Attr(doc[n], <<"src">>) \in DOMAIN images
    THEN createImageNode(doc[n], images[Attr(doc[n], <<"src">>)],
                         computedStyles, viewport)
         @@ ("src" :> n)
    ELSE NodeOver(doc, n, computedStyles, viewport,
                  ConvertChildren(doc, Children(doc, n), rules, viewport,
                                  computedStyles, throws))

convertElement(doc, n, rules, viewport, parentStyles, throws) ==
    IF ToLowerCase(doc[n].tag) \in FilteredTags THEN Null
    ELSE ConvertStyled(doc, n, rules, viewport,
                       computeStyles(doc, n, rules, parentStyles, throws), throws)

\* body.find(tagName).first(): the first element of the document, at any
\* depth, with that tag name
FindFirst(doc, tagName) ==
    CHOOSE k \in DOMAIN doc :
        /\ doc[k].tag = tagName
        /\ \A j \in 1..(k - 1) : doc[j].tag # tagName

White == Rgba(Num(1), Num(1), Num(1), Num(1))

\* colorStyles of extractStyles: one per rule that declares color
RECURSIVE ColorStyles(_)
ColorStyles(rules) ==
    IF rules = <<>> THEN EmptyObject
    ELSE ColorStyles(Tail(rules))
         @@ (IF Set(Get(Head(rules).declarations, <<"color">>))
             THEN Head(rules).selector :>
                    [name |-> Head(rules).selector, type |-> "SOLID",
                     color |-> colorToFigma(Head(rules).declarations[<<"color">>])]
             ELSE EmptyObject)

extractStyles(rules) ==
    [textStyles |-> EmptyObject, colorStyles |-> ColorStyles(rules)]

figmaDocument(children) ==
    [name |-> "Document", type |-> "DOCUMENT",
     children |-> <<[name |-> "Page 1", type |-> "CANVAS",
                     backgroundColor |-> White, children |-> children]>>]


(***************************************************************************)
(* Runs of htmlToFigma over small documents, without a stylesheet          *)
(***************************************************************************)
MaxNodes == 3

El(tag, parent, attrs, text, parses) ==
    [tag |-> tag, parent |-> parent, attrs |-> attrs, text |-> text,
     parses |-> parses]

TagSpan == <<"s", "p", "a", "n">>

TagScript == <<"s", "c", "r", "i", "p", "t">>

TagTitle == <<"t", "i", "t", "l", "e">>

Hi == <<" ", "H", "i">>

Texts == {<<>>, Hi}

\* Path data: a move and a line, and a string that is no path data.
PathData == {<<"M", "0", " ", "0", "L", "9", " ", "9">>, <<"?">>}

Size24 == <<"2", "4">>

Sized == (<<"width">> :> Size24) @@ (<<"height">> :> Size24)

SvgAttrs ==
    {EmptyObject, Sized,
     (<<"viewBox">> :> <<"0", " ", "0", " ", "4", "8", " ", "4", "8">>),
     (<<"fill">> :> None)}

\* Whether element n of the document is an svg element or inside one.
RECURSIVE InSvg(_, _)
InSvg(doc, n) ==
    /\ n # 0
    /\ (doc[n].tag = TagSvg \/ InSvg(doc, doc[n].parent))

\* The elements the HTML parser can put next, in document order, after the
\* elements of doc: the parent is the last element or above it; a script
\* holds no elements, a p holds neither div nor p, and inside svg only svg
\* content stays.
NextElements(doc) ==
    LET parents == IF doc = <<>> THEN {0}
                   ELSE {Len(doc)} \cup SeqToSet(Ancestors(doc, Len(doc)))
    IN  UNION {
          IF InSvg(doc, par)
          THEN IF doc[par].tag \in {TagSvg, TagTitle}
               THEN {El(TagPath, par, <<"d">> :> d, <<>>, TRUE) : d \in PathData}
                    \cup {El(TagTitle, par, EmptyObject, Hi, TRUE)}
               ELSE {}
          ELSE IF par # 0 /\ doc[par].tag = TagScript
          THEN {}
          ELSE {El(t, par, EmptyObject, x, TRUE) :
                   t \in ({TagDiv, TagP, TagSpan}
                          \ (IF par # 0 /\ doc[par].tag = TagP
                             THEN {TagDiv, TagP} ELSE {})),
                   x \in Texts}
               \cup {El(TagScript, par, EmptyObject, Hi, TRUE)}
               \cup {El(TagSvg, par, a, <<>>, TRUE) : a \in SvgAttrs}
               \cup {El(TagSvg, par, Sized, <<>>, FALSE)}
        : par \in parents}

InitTree ==
    /\ pc = "load"
    /\ html = <<>>
    /\ css = <<>>
    /\ selectThrows = FALSE
    /\ arg = Viewport
    /\ ret = NoRet
    /\ cssRules = <<>>
    /\ page = <<>>
    /\ idx = 0
    /\ parseThrows = "never"
    /\ warned = FALSE
    /\ request = NoRequest
    /\ images = <<>>
    /\ fonts = <<>>
    /\ imageProcessor = FALSE
    /\ imageCache = <<>>
    /\ animations = {}
    /\ sessions = <<>>
    /\ heap = <<>>
    /\ calls = <<>>
    /\ browser = FALSE

\* const $ = cheerio.load(html): the parser appends the elements of the
\* document one after the other.
Load ==
    /\ pc = "load"
    /\ Len(html) < MaxNodes
    /\ \E el \in NextElements(html) : html' = Append(html, el)
    /\ UNCHANGED <<pc, arg, ret, css, cssRules, page, idx, selectThrows,
               parseThrows, warned, request, images, fonts, imageProcessor,
               imageCache, animations, sessions, heap, calls, browser>>

\* const cssRules = this.parseCssRules(css); const page = ...children[0]
HtmlToFigma ==
    /\ pc = "load"
    /\ pc' = "children"
    /\ cssRules' = parseCssRules(css, parseThrows)
    /\ warned' = TryParseCss(css, parseThrows).raised
    /\ page' = <<>>
    /\ idx' = 1
    /\ UNCHANGED <<arg, ret, html, css, selectThrows, parseThrows, request, images,
               fonts, imageProcessor, imageCache, animations, sessions, heap,
               calls, browser>>

\* if (node) page.children.push(node); an exception leaves htmlToFigma.
Push(node) ==
    IF IsRaised(node)
    THEN pc' = "raised" /\ ret' = Raised /\ UNCHANGED <<page, idx>>
    ELSE /\ page' = IF IsNull(node) THEN page ELSE Append(page, node)
         /\ idx' = idx + 1
         /\ UNCHANGED <<pc, ret>>

\* One turn of the loop over body.children(): the element converted is
\* body.find(child.tagName).first().
ConvertChild ==
    /\ pc = "children"
    /\ idx <= Len(Children(html, 0))
    /\ Push(convertElement(html, FindFirst(html, html[Children(html, 0)[idx]].tag),
                           cssRules, arg, EmptyObject, selectThrows))
    /\ UNCHANGED <<arg, html, css, cssRules, selectThrows, parseThrows, warned,
               request, images, fonts, imageProcessor, imageCache,
               animations, sessions, heap, calls, browser>>

\* return { document: figmaDocument, ..., styles: this.extractStyles(cssRules) }
ReturnDocument ==
    /\ pc = "children"
    /\ idx > Len(Children(html, 0))
    /\ pc' = "done"
    /\ ret' = Returned("htmlToFigma",
                       [document |-> figmaDocument(page), schemaVersion |-> 0,
                        styles |-> extractStyles(cssRules)])
    /\ UNCHANGED <<arg, html, css, cssRules, page, idx, selectThrows, parseThrows,
               warned, request, images, fonts, imageProcessor, imageCache,
               animations, sessions, heap, calls, browser>>

NextTree == Load \/ HtmlToFigma \/ ConvertChild \/ ReturnDocument

SpecTree == InitTree /\ [][NextTree]_vars


\* The nodes of output trees, at every depth, parents before children.
RECURSIVE Flat(_)
Flat(nodes) ==
    IF nodes = <<>> THEN <<>>
    ELSE <<Head(nodes)>>
         \o (IF "children" \in DOMAIN Head(nodes)
             THEN Flat(Head(nodes)["children"]) ELSE <<>>)
         \o Flat(Tail(nodes))

\* The nodes that are built from an element of the document
FromElement(node) == "src" \in DOMAIN node

IsFiltered(n) == ToLowerCase(html[n].tag) \in FilteredTags

UnderFiltered(n) ==
    \E a \in SeqToSet(Ancestors(html, n)) \ {0} : IsFiltered(a)

\* C3: no node of the output, at any depth, is built from a script, style,
\* meta, link, title or head element, nor from an element inside one.
C3_FilteredNeverAppear ==
    \A i \in DOMAIN Flat(page) :
        LET node == Flat(page)[i]
        IN  FromElement(node) =>
                ~IsFiltered(node["src"]) /\ ~UnderFiltered(node["src"])

\* Element n has one child, no text of its own, and the child is a
\* text-classified element that holds text and no element.
OnlyTextChild(n) ==
    LET kids == Children(html, n)
    IN  /\ Len(kids) = 1
        /\ html[n].text = <<>>
        /\ ToLowerCase(html[kids[1]].tag) \in TextTags
        /\ Children(html, kids[1]) = <<>>
        /\ Trim(html[kids[1]].text) # <<>>

FrameWithOneText(node) ==
    LET n == node["src"]
    IN  /\ node["type"] = "FRAME"
        /\ node["name"] = ToLowerCase(html[n].tag)
        /\ "children" \in DOMAIN node
        /\ Len(node["children"]) = 1
        /\ node["children"][1]["type"] = "TEXT"
        /\ "characters" \in DOMAIN node["children"][1]
        /\ node["children"][1]["characters"]
             = Trim(html[Children(html, n)[1]].text)

\* C4 as stated: with no stylesheet, the node of an element whose only child
\* is a text-classified element holding only text is a FRAME named after the
\* element, with exactly one child, a TEXT whose characters are the trimmed
\* text.
C4_OnlyTextChild ==
    \A i \in DOMAIN Flat(page) :
        LET node == Flat(page)[i]
        IN  (FromElement(node) /\ OnlyTextChild(node["src"]))
            => FrameWithOneText(node)

\* C4, amended: the same, for an element that is not itself text-classified
\* and is not inside an svg element.
C4_FrameOnlyTextChild ==
    \A i \in DOMAIN Flat(page) :
        LET node == Flat(page)[i]
        IN  (/\ FromElement(node)
             /\ OnlyTextChild(node["src"])
             /\ ToLowerCase(html[node["src"]].tag) \notin TextTags
             /\ ~InSvg(html, node["src"]))
            => FrameWithOneText(node)

\* <div><p> Hi</p></div> converted
C4_Witness ==
    /\ pc = "done"
    /\ Len(html) = 2
    /\ html[1].tag = TagDiv
    /\ OnlyTextChild(1)
    /\ Len(page) = 1
    /\ page[1]["src"] = 1
    /\ page[1]["children"][1]["characters"] = <<"H", "i">>


\* The nodes convertElement built: the nodes of output trees down to, and
\* not below, the nodes of svg elements.
RECURSIVE FlatElements(_)
FlatElements(nodes) ==
    IF nodes = <<>> THEN <<>>
    ELSE <<Head(nodes)>>
         \o (IF /\ "children" \in DOMAIN Head(nodes)
                /\ FromElement(Head(nodes))
                /\ html[Head(nodes)["src"]].tag # TagSvg
             THEN FlatElements(Head(nodes)["children"]) ELSE <<>>)
         \o FlatElements(Tail(nodes))

IsSvgNode(node) == FromElement(node) /\ html[node["src"]].tag = TagSvg

\* Path data starts with a move command.
ValidPathData(d) == d # <<>> /\ Head(d) \in {"M", "m"}

PathsWithData(n) ==
    {k \in SeqToSet(Descendants(html, n)) :
        html[k].tag = TagPath /\ Set(Attr(html[k], <<"d">>))}

HasUnparseablePath(n) ==
    \E k \in PathsWithData(n) : ~ValidPathData(html[k].attrs[<<"d">>])

\* A single VECTOR node, 100 by 100, with one fill
SingleFallback(node) ==
    /\ node["type"] = "VECTOR"
    /\ "children" \notin DOMAIN node
    /\ "width" \in DOMAIN node /\ NumEq(node["width"], Num(PlaceholderSize))
    /\ "height" \in DOMAIN node /\ NumEq(node["height"], Num(PlaceholderSize))
    /\ "fills" \in DOMAIN node /\ Len(node["fills"]) = 1

\* The body children that are not of a filtered tag
Rendered == {k \in SeqToSet(Children(html, 0)) : ~IsFiltered(k)}

Continues == pc = "done" => Len(page) = Cardinality(Rendered)

\* C10 as stated: no exception leaves the conversion of an svg element; an
\* svg element with unparseable path data, or whose parse raises, gives a
\* single VECTOR node 100 by 100 with one fill; the conversion goes on with
\* the remaining elements.
C10_FailSoft ==
    /\ pc # "raised"
    /\ Continues
    /\ \A i \in DOMAIN FlatElements(page) :
          LET node == FlatElements(page)[i]
          IN  (/\ IsSvgNode(node)
               /\ (~html[node["src"]].parses \/ HasUnparseablePath(node["src"])))
              => SingleFallback(node)

SameColor(c1, c2) ==
    NumEq(c1.r, c2.r) /\ NumEq(c1.g, c2.g) /\ NumEq(c1.b, c2.b) /\ NumEq(c1.a, c2.a)

HasAttr(n, name) == Set(Attr(html[n], name))

\* The node of an svg element whose markup parsed: the size its attributes
\* give, 100 by 100 without them; black unless a fill is given; and every
\* path data string, parseable or not, carried as it is written.
CarriesPaths(node) ==
    LET n == node["src"]
    IN  /\ (~HasAttr(n, <<"width">>) /\ ~HasAttr(n, <<"height">>)
              /\ ~HasAttr(n, <<"viewBox">>))
           => /\ NumEq(node["width"], Num(PlaceholderSize))
              /\ NumEq(node["height"], Num(PlaceholderSize))
        /\ ~HasAttr(n, <<"fill">>)
           => Len(node["fills"]) = 1 /\ SameColor(node["fills"][1], OpaqueBlack)
        /\ \A k \in PathsWithData(n) :
              /\ "vectorPaths" \in DOMAIN node
              /\ \E j \in DOMAIN node["vectorPaths"] :
                    node["vectorPaths"][j].path = html[k].attrs[<<"d">>]

\* C10, amended: no exception leaves the conversion of an svg element and
\* the conversion goes on with the remaining elements; an svg element whose
\* parse raises gives a single VECTOR node 100 by 100 with one grey fill;
\* path data is not parsed, and an svg element whose parse returns gives a
\* VECTOR node that carries it.
C10_FailSoftOnParse ==
    /\ pc # "raised"
    /\ Continues
    /\ \A i \in DOMAIN FlatElements(page) :
          LET node == FlatElements(page)[i]
          IN  IsSvgNode(node) =>
                /\ node["type"] = "VECTOR"
                /\ ~html[node["src"]].parses
                      => SingleFallback(node) /\ node["fills"] = <<PlaceholderGrey>>
                         /\ "vectorPaths" \notin DOMAIN node
                /\ html[node["src"]].parses => CarriesPaths(node)

\* <svg> whose parse raises, then <div>: the placeholder and the div's node
C10_Witness ==
    /\ pc = "done"
    /\ Len(html) = 2
    /\ html[1].tag = TagSvg /\ ~html[1].parses
    /\ html[2].tag = TagDiv /\ html[2].parent = 0
    /\ Len(page) = 2
    /\ SingleFallback(page[1])
    /\ page[2]["src"] = 2


(***************************************************************************)
(* Runs of htmlToFigma over stylesheets whose parsing may fail             *)
(***************************************************************************)
Atrule == [type |-> "Atrule"]

NumberNode(value) == [type |-> "Number", name |-> Undefined, value |-> value]

\* p { color: red }, div { opacity: 0.5 }, div, p { color: blue } and an
\* at-rule
ParsePool ==
    {Rule(<<<<TypeSelector(TagP)>>>>,
          <<Declaration(<<"color">>, <<Identifier(Red)>>)>>),
     Rule(<<<<TypeSelector(TagDiv)>>>>,
          <<Declaration(<<"opacity">>, <<NumberNode(<<"0", ".", "5">>)>>)>>),
     Rule(<<<<TypeSelector(TagDiv)>>, <<TypeSelector(TagP)>>>>,
          <<Declaration(<<"color">>, <<Identifier(Blue)>>)>>),
     Atrule}

ParseSheets == SeqsUpTo(ParsePool, MaxRules)

InitParse ==
    /\ pc = "load"
    /\ html = CascadeDocument(<<>>)
    /\ css \in ParseSheets
    /\ parseThrows \in {"never", "parse", "join"}
    /\ selectThrows \in BOOLEAN
    /\ arg = Viewport
    /\ ret = NoRet
    /\ cssRules = <<>>
    /\ page = <<>>
    /\ idx = 0
    /\ warned = FALSE
    /\ images = <<>>
    /\ fonts = <<>>
    /\ imageProcessor = FALSE
    /\ imageCache = <<>>
    /\ animations = {}
    /\ sessions = <<>>
    /\ request = NoRequest
    /\ heap = <<>>
    /\ calls = <<>>
    /\ browser = FALSE

NextParse == HtmlToFigma \/ ConvertChild \/ ReturnDocument

SpecParse == InitParse /\ [][NextParse]_vars

\* The page of the document converted without any rule
UnstyledPage ==
    ConvertChildren(html, Children(html, 0), <<>>, arg, EmptyObject,
                    selectThrows).nodes

\* C11: parseCssRules never raises; when parsing the stylesheet failed the
\* rule set is empty, no rule of the stylesheet reaches a node (the page is
\* the page of the document without a stylesheet), and htmlToFigma returns
\* a document.
C11_ParseFailSoft ==
    /\ pc # "raised"
    /\ warned => cssRules = <<>>
    /\ pc = "done" =>
          /\ ret.fn = "htmlToFigma"
          /\ warned => ret.value.document = figmaDocument(UnstyledPage)

\* A stylesheet of two rules or more failed, and the document was returned.
C11_Witness ==
    /\ pc = "done"
    /\ warned
    /\ parseThrows = "join"
    /\ Len(css) >= 2
    /\ \A k \in DOMAIN css : css[k].type = "Rule"
    /\ page # <<>>


(***************************************************************************)
(* The import_h2d_file tool: validateH2DFile, then the conversion          *)
(***************************************************************************)
\* JSON values.  The fields of an object are a function from key to value.
JNull == [t |-> "null"]

JUndefined == [t |-> "undefined"]

JNum(n) == [t |-> "number", v |-> n]

JStr(s) == [t |-> "string", v |-> s]

JArr(a) == [t |-> "array", v |-> a]

JObj(fields) == [t |-> "object", v |-> fields]

\* typeof x
TypeOf(x) == IF x.t \in {"null", "array", "object"} THEN "object" ELSE x.t

\* x.k: reading a property of null or undefined raises a TypeError.
PropRaises(x) == x.t \in {"null", "undefined"}

Prop(x, k) ==
    IF x.t = "object" /\ k \in DOMAIN x.v THEN x.v[k] ELSE JUndefined

\* The conjuncts of validateH2DFile in their order: the path read from
\* data, and the test made on the value: a typeof, or Array.isArray.
Checks ==
    <<[path |-> <<>>, is |-> "object"],
      [path |-> <<"version">>, is |-> "string"],
      [path |-> <<"html">>, is |-> "string"],
      [path |-> <<"css">>, is |-> "string"],
      [path |-> <<"resources">>, is |-> "object"],
      [path |-> <<"viewport">>, is |-> "object"],
      [path |-> <<"metadata">>, is |-> "object"],
      [path |-> <<"resources", "images">>, is |-> "array"],
      [path |-> <<"resources", "fonts">>, is |-> "array"],
      [path |-> <<"viewport", "width">>, is |-> "number"],
      [path |-> <<"viewport", "height">>, is |-> "number"],
      [path |-> <<"metadata", "url">>, is |-> "string"],
      [path |-> <<"metadata", "timestamp">>, is |-> "string"]>>

\* The value at a path, or TypeError when a property of null or undefined
\* is read on the way.
TypeError == [t |-> "TypeError"]

RECURSIVE At(_, _)
At(x, path) ==
    IF path = <<>> THEN x
    ELSE IF PropRaises(x) THEN TypeError
    ELSE At(Prop(x, Head(path)), Tail(path))

Passes(x, is) == IF is = "array" THEN x.t = "array" ELSE TypeOf(x) = is

\* a && b && ...: "true", "false", or "raised" when a conjunct raises before
\* one is false.
RECURSIVE AllChecks(_, _)
AllChecks(data, checks) ==
    IF checks = <<>> THEN "true"
    ELSE IF At(data, Head(checks).path) = TypeError THEN "raised"
    ELSE IF ~Passes(At(data, Head(checks).path), Head(checks).is) THEN "false"
    ELSE AllChecks(data, Tail(checks))

\* A validator that checks nothing
AcceptAll(data) == "true"

validateH2DFile(data) == AllChecks(data, Checks)

\* The .h2d files of the runs: a well-formed bundle, and the bundles that
\* differ from it in one field, at the top or one level down, which is
\* missing or replaced; values that are no object; a file that is no JSON.
Markup == "<div><p id='x'>Hi</p></div>"

CssText == "p{color:red}"

WellFormedBundle ==
    ("version" :> JStr("1.0")) @@ ("html" :> JStr(Markup)) @@ ("css" :> JStr(""))
    @@ ("resources" :> JObj(("images" :> JArr(<<>>)) @@ ("fonts" :> JArr(<<>>))))
    @@ ("viewport" :> JObj(("width" :> JNum(1000)) @@ ("height" :> JNum(500))))
    @@ ("metadata" :> JObj(("url" :> JStr("u")) @@ ("timestamp" :> JStr("t"))))

Replacements ==
    {JNull, JNum(1), JStr(""), JStr(CssText), JArr(<<>>), JObj(<<>>)}

Without(fields, k) == [x \in DOMAIN fields \ {k} |-> fields[x]]

\* The objects that differ from an object in one field
Variants(fields) ==
    {(k :> v) @@ fields : k \in DOMAIN fields, v \in Replacements}
    \cup {Without(fields, k) : k \in DOMAIN fields}

Nested == {"resources", "viewport", "metadata"}

BundleData ==
    {JObj(WellFormedBundle)}
    \cup {JObj(fields) : fields \in Variants(WellFormedBundle)}
    \cup UNION {{JObj((k :> JObj(inner)) @@ WellFormedBundle) :
                    inner \in Variants(WellFormedBundle[k].v)} : k \in Nested}
    \cup Replacements

Files ==
    {[malformed |-> FALSE, data |-> d] : d \in BundleData}
    \cup {[malformed |-> TRUE, data |-> JUndefined]}

Requests ==
    {[tool |-> "import_h2d_file", file |-> f, outputPath |-> o] :
        f \in Files, o \in BOOLEAN}

McpError(code) == [error |-> "McpError", code |-> code]

\* cheerio.load(html) and parseCss(css), for the texts of the runs
CheerioLoad(text) == IF text = Markup THEN CascadeDocument(<<>>) ELSE <<>>

CssParse(text) ==
    IF text = CssText
    THEN <<Rule(<<<<TypeSelector(TagP)>>>>,
                <<Declaration(<<"color">>, <<Identifier(Red)>>)>>)>>
    ELSE <<>>

InitH2D ==
    /\ pc = "start"
    /\ request \in Requests
    /\ arg = JUndefined
    /\ ret = NoRet
    /\ html = <<>>
    /\ css = <<>>
    /\ cssRules = <<>>
    /\ page = <<>>
    /\ idx = 0
    /\ selectThrows = FALSE
    /\ parseThrows = "never"
    /\ warned = FALSE
    /\ images = <<>>
    /\ fonts = <<>>
    /\ imageProcessor = FALSE
    /\ imageCache = <<>>
    /\ animations = {}
    /\ sessions = <<>>
    /\ heap = <<>>
    /\ calls = <<>>
    /\ browser = FALSE

\* catch (error): an McpError is thrown again, any other error is wrapped
\* in McpError(InternalError).
Throw(error) ==
    /\ pc' = "raised"
    /\ ret' = error
    /\ UNCHANGED <<arg, html, css>>

\* const fileContent = await fs.readFile(filePath, 'utf-8')
ReadH2DFile ==
    /\ pc = "start"
    /\ request.tool = "import_h2d_file"
    /\ \E readable \in BOOLEAN :
          IF readable THEN pc' = "read" /\ UNCHANGED <<arg, ret, html, css>>
          ELSE Throw(McpError("InternalError"))
    /\ UNCHANGED <<cssRules, page, idx, selectThrows, parseThrows, warned, request,
               images, fonts, imageProcessor, imageCache, animations,
               sessions, heap, calls, browser>>

\* What follows validateH2DFile(h2dData): the McpError, or the call of
\* codeConverter.convert(h2dData.html, h2dData.css, { viewport }), which
\* calls htmlToFigma.
Validated(verdict, data) ==
    IF verdict = "raised" THEN Throw(McpError("InternalError"))
    ELSE IF verdict = "false" THEN Throw(McpError("InvalidRequest"))
    ELSE /\ pc' = "load"
         /\ html' = CheerioLoad(data.v["html"].v)
         /\ css' = CssParse(data.v["css"].v)
         /\ arg' = [width |-> data.v["viewport"].v["width"].v,
                    height |-> data.v["viewport"].v["height"].v]
         /\ ret' = ret

\* const h2dData = JSON.parse(fileContent); if (!validateH2DFile(h2dData))
\* throw new McpError(ErrorCode.InvalidRequest, ...)
ValidateH2D ==
    /\ pc = "read"
    /\ IF request.file.malformed THEN Throw(McpError("InternalError"))
       ELSE Validated(validateH2DFile(request.file.data), request.file.data)
    /\ UNCHANGED <<cssRules, page, idx, selectThrows, parseThrows, warned, request,
               images, fonts, imageProcessor, imageCache, animations,
               sessions, heap, calls, browser>>

\* result.metadata = h2dData.metadata; the file is written when outputPath
\* is given; the result is returned.
ReplyH2D ==
    /\ pc = "done"
    /\ request.tool = "import_h2d_file"
    /\ \E written \in BOOLEAN :
          IF request.outputPath /\ ~written
          THEN Throw(McpError("InternalError"))
          ELSE /\ pc' = "replied"
               /\ ret' = [success |-> TRUE,
                          figmaJson |-> [document |-> ret.value.document,
                                         schemaVersion |-> ret.value.schemaVersion,
                                         styles |-> ret.value.styles,
                                         metadata |-> request.file.data.v["metadata"]]]
               /\ UNCHANGED <<arg, html, css>>
    /\ UNCHANGED <<cssRules, page, idx, selectThrows, parseThrows, warned, request,
               images, fonts, imageProcessor, imageCache, animations,
               sessions, heap, calls, browser>>

NextH2D ==
    \/ ReadH2DFile \/ ValidateH2D
    \/ HtmlToFigma \/ ConvertChild \/ ReturnDocument
    \/ ReplyH2D

SpecH2D == InitH2D /\ [][NextH2D]_vars

\* A bundle as the format defines it: an object holding every required
\* field, each of its primitive type.
RECURSIVE Conforms(_, _)
Conforms(data, checks) ==
    \/ checks = <<>>
    \/ /\ At(data, Head(checks).path) # TypeError
       /\ Passes(At(data, Head(checks).path), Head(checks).is)
       /\ At(data, Head(checks).path).t # "null"
       /\ Conforms(data, Tail(checks))

Invalid(file) == file.malformed \/ ~Conforms(file.data, Checks)

\* C12: a bundle that is malformed or lacks a required field is answered
\* with McpError(InvalidRequest) and never converted; the conversion runs
\* only for a file validateH2DFile returned true for.
C12_InvalidBundleRejected ==
    /\ [][(pc = "read" /\ Invalid(request.file))
            => (pc' = "raised" /\ ret' = McpError("InvalidRequest"))]_vars
    /\ []((request.tool = "import_h2d_file"
            /\ pc \in {"load", "children", "done", "replied"})
           => (~request.file.malformed
                 /\ validateH2DFile(request.file.data) = "true"))


(***************************************************************************)
(* ImageProcessor and FontManager.detectFonts                              *)
(***************************************************************************)
\* A url is a sequence of pieces: its scheme first.
UrlA == <<"http://", "a">>

UrlB == <<"http://", "b">>

DataUrl == <<"data:", "image/png", ";base64,", "QQ">>

\* dataUrl.match(/^data:([^;]+);base64,(.+)$/): null when it does not match
processDataUrl(dataUrl) ==
    IF Len(dataUrl) = 4 /\ dataUrl[1] = "data:" /\ dataUrl[3] = ";base64,"
    THEN [url |-> dataUrl, data |-> <<dataUrl[4]>>, mimeType |-> <<dataUrl[2]>>,
          width |-> NaN, height |-> NaN]
    ELSE Null

\* The ImageResource of a response of axios.get: the width and height are
\* not set.
Response(url) ==
    [url |-> url, data |-> <<"QUJD">>, mimeType |-> <<"image/png">>,
     width |-> NaN, height |-> NaN]

\* resolveUrl: an absolute url as it is; a relative one needs this.baseUrl.
IsAbsolute(url) == url # <<>> /\ Head(url) \in {"http://", "https://"}

Resolves(url, baseUrl) == IsAbsolute(url) \/ baseUrl # <<>>

resolveUrl(url, baseUrl) ==
    IF IsAbsolute(url) THEN url
    ELSE IF baseUrl = <<>> THEN Null
    ELSE baseUrl \o <<"/">> \o url

\* downloadImage up to its await of axios.get: the image it returns without
\* the network (from the cache, from a data url, null for a url it cannot
\* resolve), or the request it waits for.
Waiting(url) == [waiting |-> url]

IsWaiting(fetch) == "waiting" \in DOMAIN fetch

downloadImage(url, baseUrl, cache) ==
    IF url \in DOMAIN cache THEN cache[url]
    ELSE IF url # <<>> /\ Head(url) = "data:" THEN processDataUrl(url)
    ELSE IF ~Resolves(url, baseUrl) THEN Null
    ELSE Waiting(resolveUrl(url, baseUrl))

\* this.imageCache.set(url, image); this.imageCache.set(absoluteUrl, image)
Cached(cache, url, absoluteUrl, image) ==
    (url :> image) @@ (absoluteUrl :> image) @@ cache

\* x || y for the width and height of an image
OrNumber(x, y) == IF Truthy(x) THEN x ELSE y

\* images.set(imgData.src, { ...image, width: imgData.width || image.width,
\* height: imgData.height || image.height }), when image is not null
SetWebImage(map, imgData, image) ==
    IF IsNull(image) THEN map
    ELSE (imgData.src :>
            [url |-> image.url, data |-> image.data, mimeType |-> image.mimeType,
             width |-> OrNumber(imgData.width, image.width),
             height |-> OrNumber(imgData.height, image.height)])
         @@ map

\* images.set(src, image), when image is not null
SetHtmlImage(map, src, image) ==
    IF IsNull(image) THEN map ELSE (src :> image) @@ map

\* The key of detectFonts, `${family}-${weight}-${style}`, is made of the
\* weight as the page gives it; the key of getTextStyle is made of the
\* number parseFontWeight gives.  They agree when the text is that number.
KeyWeight(weight) ==
    IF NumEq(ParseFloat(weight), parseFontWeight(weight))
    THEN parseFontWeight(weight) ELSE weight

\* fontData.forEach: the first entry of a key is kept
RECURSIVE detectFonts(_, _)
detectFonts(fontData, map) ==
    IF fontData = <<>> THEN map
    ELSE detectFonts(
            Tail(fontData),
            map @@ (<<Head(fontData).family, KeyWeight(Head(fontData).weight),
                      Head(fontData).style>> :>
                    [family |-> Head(fontData).family,
                     weight |-> parseFontWeight(Head(fontData).weight),
                     style |-> Head(fontData).style,
                     size |-> OrDefaultSize(ParseFloat(Head(fontData).size))]))


(***************************************************************************)
(* WebToFigmaConverter.convert and ImageProcessor.processHtmlImages, run   *)
(* for several requests on the one converter of the server                 *)
(***************************************************************************)
MaxSessions == 2

\* htmlToFigma as one step: the nodes of the children of body, each the
\* conversion of body.find(child.tagName).first().
RECURSIVE BodyNodes(_, _, _, _)
BodyNodes(doc, kids, rules, viewport) ==
    IF kids = <<>> THEN [raised |-> FALSE, nodes |-> <<>>]
    ELSE AddChild(convertElement(doc, FindFirst(doc, doc[Head(kids)].tag), rules,
                                 viewport, <<>>, selectThrows),
                  BodyNodes(doc, Tail(kids), rules, viewport))

\* figmaData of WebToFigmaConverter.convert: what htmlToFigma returns, with
\* metadata.animations = this.animationExtractor.getAnimationMetadata()
FigmaData(body, rules, metadata) ==
    IF body.raised THEN Raised
    ELSE [document |-> figmaDocument(body.nodes), schemaVersion |-> 0,
          styles |-> extractStyles(rules), metadata |-> metadata]

ResultWith(site, extracted) ==
    FigmaData(BodyNodes(site.html, Children(site.html, 0),
                        parseCssRules(site.styles, parseThrows), Viewport),
              parseCssRules(site.styles, parseThrows),
              [animations |-> extracted])

WebResult(site) == ResultWith(site, animations)

\* style.match(/background-image:\s*url\(["']?([^"')]+)["']?\)/)
HasBackgroundUrl(style) ==
    Len(style) >= 3 /\ style[1] = "background-image:url(" /\ style[Len(style)] = ")"

BackgroundUrl(style) ==
    IF Len(style) >= 3 /\ style[1] = "background-image:url(" /\ style[Len(style)] = ")"
    THEN SubSeq(style, 2, Len(style) - 1)
    ELSE Null

\* The pages of the runs.  imageData and fontData are what page.evaluate
\* returns in processWebImages and detectFonts; animated are the selectors
\* extractFromCss finds an animation for.
ImgDoc(src) == <<El(TagImg, 0, (<<"src">> :> src), <<>>, TRUE)>>

ImgData(src, size) == [src |-> src, width |-> size, height |-> size]

InterFont ==
    [family |-> Inter, weight |-> <<"4", "0", "0">>, style |-> Normal,
     size |-> <<"1", "6", "p", "x">>]

WebSites ==
    {[kind |-> "web", html |-> ImgDoc(UrlA), styles |-> <<>>,
      imageData |-> <<ImgData(UrlA, Num(10))>>, fontData |-> <<>>, animated |-> {}],
     [kind |-> "web", html |-> ImgDoc(UrlB), styles |-> <<>>,
      imageData |-> <<ImgData(UrlB, NaN), ImgData(DataUrl, NaN)>>,
      fontData |-> <<>>, animated |-> {}],
     [kind |-> "web", html |-> <<El(TagP, 0, <<>>, Hi, TRUE)>>, styles |-> <<>>,
      imageData |-> <<>>, fontData |-> <<InterFont, InterFont>>,
      animated |-> {<<"p">>}]}

HtmlSites ==
    {[kind |-> "html",
      html |-> <<El(TagImg, 0, (<<"src">> :> UrlA), <<>>, TRUE),
                 El(TagDiv, 0,
                    (<<"style">> :> (<<"background-image:url(">> \o UrlB \o <<")">>)),
                    <<>>, TRUE),
                 El(TagImg, 0, (<<"src">> :> <<"c.png">>), <<>>, TRUE)>>]}

NewSession(site) ==
    [site |-> site, pc |-> "new", k |-> 0, images |-> <<>>, pending |-> {},
     hasReturned |-> FALSE, returned |-> <<>>, log |-> <<>>, fonts |-> <<>>, result |-> Null,
     alone |-> Null]

InitWeb ==
    /\ pc = "serve"
    /\ sessions \in UNION {[1..n -> {NewSession(site) : site \in WebSites \cup HtmlSites}] :
                              n \in 1..MaxSessions}
    /\ arg = NoRequest
    /\ ret = NoRet
    /\ html = <<>>
    /\ css = <<>>
    /\ cssRules = <<>>
    /\ page = <<>>
    /\ idx = 0
    /\ selectThrows = FALSE
    /\ parseThrows = "never"
    /\ warned = FALSE
    /\ request = NoRequest
    /\ images = <<>>
    /\ fonts = <<>>
    /\ imageProcessor = TRUE
    /\ imageCache = <<>>
    /\ animations = {}
    /\ heap = <<>>
    /\ calls = <<>>
    /\ browser = FALSE

Idle == UNCHANGED <<pc, arg, ret, html, css, cssRules, page, idx, selectThrows,
                    parseThrows, warned, request, heap, calls>>

SiteUrl == <<"http://", "site">>

\* The mutant of Settled: a request that failed is answered all the same.
SettledAnyway(fetch, ok) ==
    IF ~IsWaiting(fetch) THEN fetch ELSE Response(fetch.waiting)

\* What a request settles with: the image downloadImage had without the
\* network, or the response, or null when axios.get failed or timed out.
Settled(fetch, ok) ==
    IF ~IsWaiting(fetch) THEN fetch
    ELSE IF ok THEN Response(fetch.waiting)
    ELSE Null

\* History of the run: whether the download of src gave an image.
Outcome(src, fetch, ok) ==
    [src |-> src, ok |-> IF IsWaiting(fetch) THEN ok ELSE ~IsNull(fetch)]

CacheAfter(cache, src, fetch, ok) ==
    IF IsWaiting(fetch) /\ ok
    THEN Cached(cache, src, fetch.waiting, Response(fetch.waiting))
    ELSE cache

\* History of the run: alone, the document a conversion returns when nothing
\* runs between its setImages and its return.  It is recorded by the step
\* that follows FontsDetected, from the fields FontsDetected has just set
\* and the animations of the page of the session.
Solo(next) ==
    [j \in DOMAIN next |->
        IF sessions[j].pc = "closing" /\ IsNull(sessions[j].alone)
        THEN [next[j] EXCEPT !.alone = ResultWith(sessions[j].site,
                                                  sessions[j].site.animated)]
        ELSE next[j]]

\* convert up to processWebImages: the browser is launched when there is
\* none, the page is opened, its html and styles
\* are read, extractFromCss(styles) adds the animations of the page to the
\* extractor of the converter, and imageData is read from the page.
Open(i) ==
    /\ sessions[i].pc = "new"
    /\ sessions[i].site.kind = "web"
    /\ animations' = animations \cup sessions[i].site.animated
    /\ sessions' = Solo([sessions EXCEPT ![i].pc = "images", ![i].k = 1])
    /\ UNCHANGED <<images, fonts, imageProcessor, imageCache>>
    /\ Idle
    /\ browser' = TRUE

\* for (const imgData of imageData) { ... await this.downloadImage(src)
StartDownload(i) ==
    /\ sessions[i].pc = "images"
    /\ sessions[i].k <= Len(sessions[i].site.imageData)
    /\ sessions' = Solo(
         [sessions EXCEPT
            ![i].pc = "downloading",
            ![i].pending =
               {[src |-> sessions[i].site.imageData[sessions[i].k].src,
                 fetch |-> downloadImage(sessions[i].site.imageData[sessions[i].k].src,
                                         SiteUrl, imageCache)]}])
    /\ UNCHANGED <<images, fonts, imageProcessor, imageCache, animations>>
    /\ Idle
    /\ UNCHANGED browser

\* ... if (image) images.set(...) } catch (error) { console.warn(...) } }
SettleDownload(i) ==
    /\ sessions[i].pc = "downloading"
    /\ \E p \in sessions[i].pending, ok \in BOOLEAN :
          /\ imageCache' = CacheAfter(imageCache, p.src, p.fetch, ok)
          /\ sessions' = Solo(
               [sessions EXCEPT
                  ![i].pc = "images",
                  ![i].k = @ + 1,
                  ![i].pending = {},
                  ![i].log = Append(@, Outcome(p.src, p.fetch, ok)),
                  ![i].images =
                     SetWebImage(@, sessions[i].site.imageData[sessions[i].k],
                                 Settled(p.fetch, ok))])
    /\ UNCHANGED <<images, fonts, imageProcessor, animations>>
    /\ Idle
    /\ UNCHANGED browser

\* return images; in convert: this.images = images; then detectFonts(page)
\* is awaited.
ReturnImages(i) ==
    /\ sessions[i].pc = "images"
    /\ sessions[i].k > Len(sessions[i].site.imageData)
    /\ images' = sessions[i].images
    /\ sessions' = Solo([sessions EXCEPT ![i].pc = "fonts", ![i].hasReturned = TRUE,
                                    ![i].returned = sessions[i].images])
    /\ UNCHANGED <<fonts, imageProcessor, imageCache, animations>>
    /\ Idle
    /\ UNCHANGED browser

\* this.setFonts(fonts); this.setImageProcessor(this.imageProcessor);
\* this.setImages(images); await page.close()
FontsDetected(i) ==
    /\ sessions[i].pc = "fonts"
    /\ Idle
    /\ UNCHANGED browser
    /\ fonts' = detectFonts(sessions[i].site.fontData, <<>>)
    /\ imageProcessor' = TRUE
    /\ images' = sessions[i].images
    /\ UNCHANGED <<imageCache, animations>>
    /\ sessions' = Solo([sessions EXCEPT
                      ![i].pc = "closing",
                      ![i].fonts = detectFonts(sessions[i].site.fontData, <<>>)])

\* const figmaData = await this.htmlToFigma(html, styles, options.viewport);
\* figmaData.metadata = { animations: getAnimationMetadata(), ... }
Closed(i) ==
    /\ sessions[i].pc = "closing"
    /\ sessions' = Solo([sessions EXCEPT
                      ![i].pc = IF IsRaised(WebResult(sessions[i].site))
                                THEN "failed" ELSE "done",
                      ![i].result = WebResult(sessions[i].site)])
    /\ UNCHANGED <<images, fonts, imageProcessor, imageCache, animations>>
    /\ Idle
    /\ UNCHANGED browser

\* The urls processHtmlImages downloads: the src of every img, then the
\* background-image of every style attribute that is not a data url.
RECURSIVE ImageSrcs(_, _)
ImageSrcs(doc, n) ==
    IF n > Len(doc) THEN <<>>
    ELSE (IF doc[n].tag = TagImg /\ Set(Attr(doc[n], <<"src">>))
          THEN <<Attr(doc[n], <<"src">>)>> ELSE <<>>)
         \o ImageSrcs(doc, n + 1)

RECURSIVE BackgroundSrcs(_, _)
BackgroundSrcs(doc, n) ==
    IF n > Len(doc) THEN <<>>
    ELSE (IF /\ Set(Attr(doc[n], <<"style">>))
             /\ HasBackgroundUrl(Attr(doc[n], <<"style">>))
             /\ Head(BackgroundUrl(Attr(doc[n], <<"style">>))) # "data:"
          THEN <<BackgroundUrl(Attr(doc[n], <<"style">>))>> ELSE <<>>)
         \o BackgroundSrcs(doc, n + 1)

\* processHtmlImages(html): each(async ...) calls every callback, which runs
\* up to its await of downloadImage, and each() returns without waiting for
\* them; the function returns the map.
ProcessHtmlImages(i) ==
    /\ sessions[i].pc = "new"
    /\ sessions[i].site.kind = "html"
    /\ sessions' = Solo(
         [sessions EXCEPT
            ![i].pc = "returned",
            ![i].hasReturned = TRUE,
            ![i].returned = sessions[i].images,
            ![i].pending =
               {[src |-> src, fetch |-> downloadImage(src, <<>>, imageCache)] :
                  src \in SeqToSet(ImageSrcs(sessions[i].site.html, 1)
                                   \o BackgroundSrcs(sessions[i].site.html, 1))}])
    /\ UNCHANGED <<images, fonts, imageProcessor, imageCache, animations>>
    /\ Idle
    /\ UNCHANGED browser

\* A callback of each() resumes: if (image) images.set(src, image)
SettleCallback(i) ==
    /\ sessions[i].pc = "returned"
    /\ \E p \in sessions[i].pending, ok \in BOOLEAN :
          /\ imageCache' = CacheAfter(imageCache, p.src, p.fetch, ok)
          /\ sessions' = Solo(
               [sessions EXCEPT
                  ![i].pending = @ \ {p},
                  ![i].log = Append(@, Outcome(p.src, p.fetch, ok)),
                  ![i].images = SetHtmlImage(@, p.src, Settled(p.fetch, ok))])
    /\ UNCHANGED <<images, fonts, imageProcessor, animations>>
    /\ Idle
    /\ UNCHANGED browser

NextWeb ==
    \E i \in DOMAIN sessions :
        \/ Open(i) \/ StartDownload(i) \/ SettleDownload(i) \/ ReturnImages(i)
        \/ FontsDetected(i) \/ Closed(i)
        \/ ProcessHtmlImages(i) \/ SettleCallback(i)

SpecWeb == InitWeb /\ [][NextWeb]_vars

\* The nodes of the document a conversion returned, at every depth.
NodesOf(result) == Flat(result.document.children[1].children)

HasImageFill(node) ==
    /\ "fills" \in DOMAIN node
    /\ \E k \in DOMAIN node["fills"] : "imageHash" \in DOMAIN node["fills"][k]

\* C13: once processWebImages or processHtmlImages has returned its map, no
\* download it started is still pending and the map is the one it returned
\* (nothing is added afterwards); and the tree walk of a conversion starts
\* only after the images and the fonts were collected.
C13_FrozenSnapshot ==
    \A i \in DOMAIN sessions :
        /\ sessions[i].hasReturned
             => /\ sessions[i].pending = {}
                /\ sessions[i].images = sessions[i].returned
                /\ \A k \in DOMAIN sessions[i].log :
                      sessions[i].log[k].ok
                        => sessions[i].log[k].src \in DOMAIN sessions[i].returned
        /\ sessions[i].pc \in {"closing", "done", "failed"}
             => sessions[i].hasReturned

\* C14: the document a conversion returns is the one it returns when it
\* runs alone, whatever other conversions are in flight on the converter.
C14_NoSharedState ==
    \A i \in DOMAIN sessions :
        sessions[i].pc = "done" => sessions[i].result = sessions[i].alone

MaxFlexDeclarations == 3

Flex == <<"f", "l", "e", "x">>

Column == <<"c", "o", "l", "u", "m", "n">>

FlexDeclarations ==
    {<<"display", ":">> \o Flex,
     <<"display", ":", "b", "l", "o", "c", "k">>,
     <<"flex-direction", ":">> \o Column,
     <<"flex-direction", ":", "r", "o", "w">>,
     <<"gap", ":", "8", "p", "x">>}

FlexInlines ==
    {Join(ds, <<";">>) : ds \in SeqsUpTo(FlexDeclarations, MaxFlexDeclarations)}

\* no stylesheet, div { display: flex } and
\* div { display: flex; flex-direction: column; gap: 4px }
FlexSheets ==
    {<<>>,
     <<Rule(<<<<TypeSelector(TagDiv)>>>>,
            <<Declaration(<<"display">>, <<Identifier(Flex)>>)>>)>>,
     <<Rule(<<<<TypeSelector(TagDiv)>>>>,
            <<Declaration(<<"display">>, <<Identifier(Flex)>>),
              Declaration(<<"flex-direction">>, <<Identifier(Column)>>),
              Declaration(<<"gap">>,
                          <<[type |-> "Dimension", name |-> Undefined,
                             value |-> <<"4", "p", "x">>]>>)>>)>>}

InitFlex ==
    /\ pc = "load"
    /\ html \in {<<El(TagDiv, 0, (<<"style">> :> inline), <<>>, TRUE)>> :
                    inline \in FlexInlines}
    /\ css \in FlexSheets
    /\ parseThrows \in {"never", "join"}
    /\ selectThrows = FALSE
    /\ arg = Viewport
    /\ ret = NoRet
    /\ cssRules = <<>>
    /\ page = <<>>
    /\ idx = 0
    /\ warned = FALSE
    /\ request = NoRequest
    /\ images = <<>>
    /\ fonts = <<>>
    /\ imageProcessor = FALSE
    /\ imageCache = <<>>
    /\ animations = {}
    /\ sessions = <<>>
    /\ heap = <<>>
    /\ calls = <<>>
    /\ browser = FALSE

NextFlex == HtmlToFigma \/ ConvertChild \/ ReturnDocument

SpecFlex == InitFlex /\ [][NextFlex]_vars

\* The effective style of the element of a node of the page: what the
\* stylesheet parser and the inline-style parser give for it.
EffectiveStyle(node) ==
    computeStyles(html, node["src"], cssRules, EmptyObject, selectThrows)

\* C16: a node whose effective style has display: flex has layoutMode
\* VERTICAL when flex-direction is column and HORIZONTAL otherwise, both
\* sizing modes AUTO, and itemSpacing equal to the gap when gap is declared;
\* a node whose display is not flex has no layoutMode.
C16_FlexAutoLayout ==
    pc = "done" =>
        \A k \in DOMAIN page :
            IF Get(EffectiveStyle(page[k]), <<"display">>) = Flex
            THEN /\ "layoutMode" \in DOMAIN page[k]
                 /\ page[k]["layoutMode"] =
                      (IF Get(EffectiveStyle(page[k]), <<"flex-direction">>) = Column
                       THEN "VERTICAL" ELSE "HORIZONTAL")
                 /\ page[k]["primaryAxisSizingMode"] = "AUTO"
                 /\ page[k]["counterAxisSizingMode"] = "AUTO"
                 /\ Set(Get(EffectiveStyle(page[k]), <<"gap">>))
                      => /\ "itemSpacing" \in DOMAIN page[k]
                         /\ NumEq(page[k]["itemSpacing"],
                                  ParseFloat(EffectiveStyle(page[k])[<<"gap">>]))
            ELSE "layoutMode" \notin DOMAIN page[k]


(***************************************************************************)
(* Runs of htmlToFigma over elements whose width and height are written    *)
(* as lengths of several kinds: a div with a style attribute, an img whose *)
(* image is in the map, an svg element, and a rect and a circle in one     *)
(***************************************************************************)
Lengths ==
    {<<"1", "0", "p", "x">>, <<"-", "5", "p", "x">>, <<"a", "p", "x">>,
     <<"5", "0", "%">>, <<"-", "2", "e", "m">>, <<"a", "b", "c">>, <<"-", "5">>}

TagRect == <<"r", "e", "c", "t">>

TagCircle == <<"c", "i", "r", "c", "l", "e">>

WidthAndHeight(w, h) == (<<"width">> :> w) @@ (<<"height">> :> h)

SizeDocuments ==
    {<<El(TagDiv, 0,
          (<<"style">> :> (<<"width", ":">> \o w \o <<";", "height", ":">> \o h)),
          <<>>, TRUE)>> : w \in Lengths, h \in Lengths}
    \cup {<<El(TagImg, 0, (<<"src">> :> UrlA) @@ WidthAndHeight(w, h), <<>>, TRUE)>> :
             w \in Lengths, h \in Lengths}
    \cup {<<El(TagSvg, 0, WidthAndHeight(w, h), <<>>, TRUE)>> :
             w \in Lengths, h \in Lengths}
    \cup {<<El(TagSvg, 0, EmptyObject, <<>>, TRUE),
             El(TagRect, 1, WidthAndHeight(w, h), <<>>, TRUE)>> :
             w \in Lengths, h \in Lengths}
    \cup {<<El(TagSvg, 0, EmptyObject, <<>>, TRUE),
             El(TagCircle, 1, (<<"r">> :> r), <<>>, TRUE)>> : r \in Lengths}

\* The converter after setImages and setImageProcessor: the image of
\* http://a is in the map, without a width or a height of its own.
InitSize ==
    /\ pc = "load"
    /\ html \in SizeDocuments
    /\ css = <<>>
    /\ parseThrows = "never"
    /\ selectThrows = FALSE
    /\ arg = Viewport
    /\ ret = NoRet
    /\ cssRules = <<>>
    /\ page = <<>>
    /\ idx = 0
    /\ warned = FALSE
    /\ request = NoRequest
    /\ images = (UrlA :> Response(UrlA))
    /\ fonts = <<>>
    /\ imageProcessor = TRUE
    /\ imageCache = <<>>
    /\ animations = {}
    /\ sessions = <<>>
    /\ heap = <<>>
    /\ calls = <<>>
    /\ browser = FALSE

NextSize == HtmlToFigma \/ ConvertChild \/ ReturnDocument

SpecSize == InitSize /\ [][NextSize]_vars

\* A number >= 0; NaN is not one.
NonNegative(x) == ~IsNaN(x) /\ x.n >= 0

\* C17: every width and every height written on a node of the output is a
\* number >= 0.
C17_SizesNonNegative ==
    pc = "done" =>
        \A k \in DOMAIN Flat(page) :
            /\ "width" \in DOMAIN Flat(page)[k] => NonNegative(Flat(page)[k]["width"])
            /\ "height" \in DOMAIN Flat(page)[k] => NonNegative(Flat(page)[k]["height"])


\* A number of the interval [0, 1]; NaN is not one.
InUnit(x) == NumLe(Num(0), x) /\ NumLe(x, Num(1))

\* C18: each of the channels r, g, b, a that colorToFigma and parseColor
\* return is a number in [0, 1], for every colour string.
C18_ChannelsInUnit ==
    pc = "done" =>
        /\ InUnit(ret.value.r)
        /\ InUnit(ret.value.g)
        /\ InUnit(ret.value.b)
        /\ InUnit(ret.value.a)


(***************************************************************************)
(* computeStyles on objects held by reference: heap[ref] is the content of *)
(* the object ref, a declarations object of the rule set or a style map.   *)
(***************************************************************************)
MaxCalls == 4

\* The mutant of NewStyles: const styles = parentStyles, without the copy.
SameStyles(h, parentStyles) == [heap |-> h, styles |-> parentStyles]

\* const styles = { ...parentStyles }: a new object with the properties of
\* parentStyles
NewStyles(h, parentStyles) ==
    [heap |-> Append(h, h[parentStyles]), styles |-> Len(h) + 1]

\* The mutant of AssignIn: the merged properties are written to the
\* declarations object as well.
AssignBoth(h, styles, declarations) ==
    [h EXCEPT ![styles] = Assign(h[styles], h[declarations]),
              ![declarations] = Assign(h[styles], h[declarations])]

\* Object.assign(styles, declarations): writes the object styles
AssignIn(h, styles, declarations) ==
    [h EXCEPT ![styles] = Assign(h[styles], h[declarations])]

\* cssRules.forEach((declarations, selector) => { if (matchesSelector) ... })
RECURSIVE ApplyRulesIn(_, _, _, _, _, _)
ApplyRulesIn(h, doc, n, rules, styles, throws) ==
    IF rules = <<>> THEN h
    ELSE ApplyRulesIn(IF matches(doc, n, Head(rules).selector, throws)
                      THEN AssignIn(h, styles, Head(rules).declarations)
                      ELSE h,
                      doc, n, Tail(rules), styles, throws)

\* styles[property] = value for the declarations of the style attribute
InlineIn(h, el, styles) == [h EXCEPT ![styles] = InlineStyles(el, h[styles])]

ComputeOn(new, doc, n, rules, throws) ==
    [heap |-> InlineIn(ApplyRulesIn(new.heap, doc, n, rules, new.styles, throws),
                       Element(doc, n), new.styles),
     styles |-> new.styles]

\* computeStyles($element, cssRules, parentStyles): the heap when it returns
\* and the object it returns
computeStylesIn(h, doc, n, rules, parentStyles, throws) ==
    ComputeOn(NewStyles(h, parentStyles), doc, n, rules, throws)

\* The Map parseCssRules returns: each rule holds its declarations object.
RuleRefs(rules) ==
    [k \in DOMAIN rules |-> [selector |-> rules[k].selector, declarations |-> k]]

\* The objects when the rules are parsed: the declarations objects, and the
\* empty map a call without parentStyles gets.
StyleObjects(rules) ==
    [k \in 1..(Len(rules) + 1) |->
        IF k <= Len(rules) THEN rules[k].declarations ELSE EmptyObject]

StyleSheets == SeqsUpTo(ParsePool \ {Atrule}, 2)

\* A div that holds a p, each with or without a style attribute
StyleDocuments ==
    {<<El(TagDiv, 0, (<<"style">> :> a), <<>>, TRUE),
       El(TagP, 1, (<<"style">> :> b), Hi, TRUE)>> :
        a \in {<<>>, <<"background", ":", "red">>},
        b \in {<<>>, <<"color", ":", "green">>}}

InitStyles ==
    /\ pc = "resolve"
    /\ css \in StyleSheets
    /\ html \in StyleDocuments
    /\ selectThrows \in BOOLEAN
    /\ parseThrows = "never"
    /\ cssRules = RuleRefs(parseCssRules(css, parseThrows))
    /\ heap = StyleObjects(parseCssRules(css, parseThrows))
    /\ calls = <<>>
    /\ arg = NoRequest
    /\ ret = NoRet
    /\ page = <<>>
    /\ idx = 0
    /\ warned = FALSE
    /\ request = NoRequest
    /\ images = <<>>
    /\ fonts = <<>>
    /\ imageProcessor = FALSE
    /\ imageCache = <<>>
    /\ animations = {}
    /\ sessions = <<>>
    /\ browser = FALSE

\* The style maps a caller can pass as parentStyles: the empty map, or a
\* map an earlier call returned (convertElement passes computedStyles).
ParentStyles == {Len(cssRules) + 1} \cup {calls[k].styles : k \in DOMAIN calls}

Call(n, parentStyles, before, returned) ==
    [node |-> n, parentStyles |-> parentStyles, before |-> before,
     after |-> returned.heap, styles |-> returned.styles]

\* One call of computeStyles, for any element and any of those maps
CallComputeStyles(n, parentStyles) ==
    /\ pc = "resolve"
    /\ Len(calls) < MaxCalls
    /\ heap' = computeStylesIn(heap, html, n, cssRules, parentStyles,
                               selectThrows).heap
    /\ calls' = Append(calls,
                       Call(n, parentStyles, heap,
                            computeStylesIn(heap, html, n, cssRules, parentStyles,
                                            selectThrows)))
    /\ UNCHANGED <<pc, arg, ret, html, css, cssRules, page, idx, selectThrows,
                   parseThrows, warned, request, images, fonts, imageProcessor,
                   imageCache, animations, sessions, browser>>

NextStyles ==
    \E n \in DOMAIN html, parentStyles \in ParentStyles :
        CallComputeStyles(n, parentStyles)

SpecStyles == InitStyles /\ [][NextStyles]_vars

\* The style map a call was given, and the one it returned, as they were
\* when the call began and when it returned.
GivenStyles(call) == call.before[call.parentStyles]

ReturnedStyles(call) == call.after[call.styles]

\* C19: two calls of computeStyles for the same element, with the rule set
\* of the converter and parent style maps that hold the same properties and
\* values, return maps with the same properties and values, whatever calls
\* were made between them.
C19_Deterministic ==
    \A a \in DOMAIN calls, b \in DOMAIN calls :
        (/\ calls[a].node = calls[b].node
         /\ GivenStyles(calls[a]) = GivenStyles(calls[b]))
        => ReturnedStyles(calls[a]) = ReturnedStyles(calls[b])

\* Two calls for the p with the empty parent map gave a map that holds a
\* property, and between them the p was resolved with another parent map,
\* one that holds a property.
C19_Witness ==
    /\ Len(calls) = 4
    /\ calls[1].node = 2 /\ calls[4].node = 2 /\ calls[3].node = 2
    /\ GivenStyles(calls[1]) = EmptyObject
    /\ GivenStyles(calls[4]) = EmptyObject
    /\ GivenStyles(calls[3]) # EmptyObject
    /\ ReturnedStyles(calls[4]) # EmptyObject
    /\ ReturnedStyles(calls[3]) # ReturnedStyles(calls[4])

\* C20: when a call of computeStyles returns, every object that existed
\* when it began, the parent style map and the declarations objects of the
\* rules among them, holds the properties and values it held then.
C20_InputsUnchanged ==
    \A a \in DOMAIN calls :
        \A ref \in DOMAIN calls[a].before :
            calls[a].after[ref] = calls[a].before[ref]

\* A call with a parent map that holds a property returned a map that
\* holds more: a rule or the style attribute wrote to it.
C20_Witness ==
    \E a \in DOMAIN calls :
        /\ GivenStyles(calls[a]) # EmptyObject
        /\ ReturnedStyles(calls[a]) # GivenStyles(calls[a])
        /\ \E k \in DOMAIN cssRules :
              matches(html, calls[a].node, cssRules[k].selector, selectThrows)


(***************************************************************************)
(* Runs of the cascade over rules whose selectors are class selectors, id  *)
(* selectors, type selectors, a descendant selector and selector lists     *)
(***************************************************************************)
\* .x, #x, p, div p, the list div, p and the list .x, #y
SelectorPreludes ==
    {<<<<ClassSelector(<<"x">>)>>>>,
     <<<<IdSelector(<<"x">>)>>>>,
     <<<<TypeSelector(TagP)>>>>,
     <<<<TypeSelector(TagDiv), Combinator(<<" ">>), TypeSelector(TagP)>>>>,
     <<<<TypeSelector(TagDiv)>>, <<TypeSelector(TagP)>>>>,
     <<<<ClassSelector(<<"x">>)>>, <<IdSelector(<<"y">>)>>>>}

SelectorSheets ==
    SeqsUpTo({Rule(prelude, <<Declaration(Background, <<Identifier(Red)>>)>>) :
                 prelude \in SelectorPreludes}, MaxRules)

\* <div class="x"><p id="x">Hi</p><x id="y"></x></div>
SelectorDocument ==
    <<El(TagDiv, 0, (<<"class">> :> <<"x">>), <<>>, TRUE),
      El(TagP, 1, (<<"id">> :> <<"x">>), Hi, TRUE),
      El(<<"x">>, 1, (<<"id">> :> <<"y">>), <<>>, TRUE)>>

InitSelector ==
    /\ pc = "start"
    /\ css \in SelectorSheets
    /\ html = SelectorDocument
    /\ selectThrows \in BOOLEAN
    /\ arg = FirstCall
    /\ ret = NoRet
    /\ cssRules = <<>>
    /\ page = <<>>
    /\ idx = 0
    /\ parseThrows = "never"
    /\ warned = FALSE
    /\ request = NoRequest
    /\ images = <<>>
    /\ fonts = <<>>
    /\ imageProcessor = FALSE
    /\ imageCache = <<>>
    /\ animations = {}
    /\ sessions = <<>>
    /\ heap = <<>>
    /\ calls = <<>>
    /\ browser = FALSE

SpecSelector == InitSelector /\ [][NextCascade]_vars

\* The text of one selector of a list as the stylesheet writes it.
MemberSource(selector) ==
    Concat([j \in DOMAIN selector |-> SourceCompound(selector[j])])

\* The elements the selector list of a rule selects: those that one of its
\* members selects.
SourceSelects(doc, n, prelude) ==
    \E k \in DOMAIN prelude : SelectorMatches(doc, n, MemberSource(prelude[k]))

\* C21: for every rule parseCssRules stores, the selector string it is
\* stored under selects, in computeStyles, the same elements as the
\* selector list the stylesheet wrote for the rule.
C21_SerializationKeepsMeaning ==
    pc \in {"parsed", "done"} =>
        \A k \in DOMAIN css, n \in DOMAIN html :
            /\ \E j \in DOMAIN cssRules :
                  cssRules[j].selector = selectorToString(css[k].prelude)
            /\ matches(html, n, selectorToString(css[k].prelude), selectThrows)
                  <=> SourceSelects(html, n, css[k].prelude)


(***************************************************************************)
(* Runs of SelectorMatcher.simpleMatch on one element and one selector     *)
(***************************************************************************)
MaxSelectorLen == 4

SelectorChars == {"#", ".", "x", "p", " ", ":", "[", "]"}

\* The selector strings of the runs: every string of up to MaxSelectorLen
\* of those characters, and some longer ones.
MatchSelectors ==
    SeqsUpTo(SelectorChars, MaxSelectorLen)
    \cup {<<"[", "x", "=", "p", "]">>, <<"[", "x", "=", "x", "]">>,
          <<"#", "x", ",", "p">>, <<"#", "x", " ", ">", " ", "p">>,
          <<".", "x", ":", "h", "o", "v", "e", "r">>, <<"p", ">", "x">>}

\* <p id="x" class="x" x="p"></p><x></x>
MatchDocument ==
    <<El(TagP, 0,
         (<<"id">> :> <<"x">>) @@ (<<"class">> :> <<"x">>) @@ (<<"x">> :> <<"p">>),
         <<>>, TRUE),
      El(<<"x">>, 0, EmptyObject, <<>>, TRUE)>>

InitMatch ==
    /\ pc = "start"
    /\ html = MatchDocument
    /\ arg \in {[node |-> n, selector |-> t] :
                   n \in DOMAIN MatchDocument, t \in MatchSelectors}
    /\ ret = NoRet
    /\ css = <<>>
    /\ cssRules = <<>>
    /\ page = <<>>
    /\ idx = 0
    /\ selectThrows = TRUE
    /\ parseThrows = "never"
    /\ warned = FALSE
    /\ request = NoRequest
    /\ images = <<>>
    /\ fonts = <<>>
    /\ imageProcessor = FALSE
    /\ imageCache = <<>>
    /\ animations = {}
    /\ sessions = <<>>
    /\ heap = <<>>
    /\ calls = <<>>
    /\ browser = FALSE

\* SelectorMatcher.matches in a build where selectOne raises: the catch
\* clause returns simpleMatch(element, selector, $)
SimpleMatch ==
    /\ pc = "start"
    /\ pc' = "done"
    /\ ret' = Returned("simpleMatch", matches(html, arg.node, arg.selector,
                                              selectThrows))
    /\ UNCHANGED <<arg, html, css, cssRules, page, idx, selectThrows, parseThrows,
                   warned, request, images, fonts, imageProcessor, imageCache,
                   animations, sessions, heap, calls, browser>>

NextMatch == SimpleMatch

SpecMatch == InitMatch /\ [][NextMatch]_vars

IsName(s) == s # <<>> /\ \A i \in DOMAIN s : IsLetter(s[i])

\* The selector is of one of the four forms, and the element satisfies it.
FourForms(el, s) ==
    \/ /\ StartsWith(s, <<"#">>) /\ IsName(Tail(s))
       /\ Attr(el, <<"id">>) = Tail(s)
    \/ /\ StartsWith(s, <<".">>) /\ IsName(Tail(s))
       /\ HasClass(el, Tail(s))
    \/ /\ IsName(s)
       /\ ToLowerCase(s) = el.tag
    \/ /\ Len(s) >= 3 /\ s[1] = "[" /\ s[Len(s)] = "]"
       /\ \/ /\ IsName(SubSeq(s, 2, Len(s) - 1))
             /\ Attr(el, SubSeq(s, 2, Len(s) - 1)) # Undefined
          \/ \E k \in 3..(Len(s) - 2) :
                /\ s[k] = "="
                /\ IsName(SubSeq(s, 2, k - 1))
                /\ IsName(SubSeq(s, k + 1, Len(s) - 1))
                /\ Attr(el, SubSeq(s, 2, k - 1)) = SubSeq(s, k + 1, Len(s) - 1)

\* C22: the fallback matcher returns true only for "#x" with the element's
\* id x, one ".x" with x a class of the element, a type name equal to the
\* element's tag, and one "[attr]" or "[attr=value]" the element satisfies;
\* for every other selector it returns false.
C22_FallbackFourForms ==
    pc = "done" =>
        (ret.value => FourForms(Element(html, arg.node), arg.selector))


(***************************************************************************)
(* Runs of getTextStyle's font mapping over font-family lists              *)
(***************************************************************************)
MaxFamilies == 2

\* Arial, zz, Roboto and "Lato"
FamilyNames ==
    {<<"A", "r", "i", "a", "l">>, <<"z", "z">>, <<"R", "o", "b", "o", "t", "o">>,
     <<"\"", "L", "a", "t", "o", "\"">>}

\* The font-family values of the runs: lists of one to MaxFamilies names
\* separated by ", ", each with the names written in it.
FamilyArgs ==
    {[fontFamily |-> Join(items, <<",", " ">>), items |-> items,
      fontWeight |-> w, fontStyle |-> st] :
        items \in SeqsUpTo(FamilyNames, MaxFamilies) \ {<<>>},
        w \in {<<"4", "0", "0">>, <<"b", "o", "l", "d">>, Undefined},
        st \in {Italic, Normal}}

InitFamily ==
    /\ pc = "start"
    /\ arg \in FamilyArgs
    /\ ret = NoRet
    /\ IdleDocument

SpecFamily == InitFamily /\ [][NextFont]_vars

\* C23: the mapped family of a font-family list is the one mapped for its
\* first name alone, without its quotes; and the name zz, which matches no
\* font, maps to Inter.
C23_FirstFamilyOnly ==
    pc = "done" =>
        /\ ret.value.figmaFamily = MapFamily(RemoveQuotes(arg.items[1]))
        /\ arg.items[1] = <<"z", "z">> => ret.value.figmaFamily = Inter


(***************************************************************************)
(* Runs of htmlToFigma that record the calls of computeStyles made by      *)
(* convertElement, over nested elements with rules and style attributes    *)
(***************************************************************************)
\* The calls of computeStyles that convertElement makes for element n and,
\* through its loop over the children, below it, in the order they are made:
\* a filtered element, an svg element and a known image have their styles
\* computed and are not descended into; an exception ends the loop.
RECURSIVE StyleCalls(_, _, _, _, _)
RECURSIVE StyleCallsOfAll(_, _, _, _, _)
StyleCalls(doc, n, rules, parentStyles, throws) ==
    <<[node |-> n, parentStyles |-> parentStyles,
       styles |-> computeStyles(doc, n, rules, parentStyles, throws)]>>
    \o (IF \/ ToLowerCase(doc[n].tag) \in FilteredTags
            \/ isSvgElement(ToLowerCase(doc[n].tag))
            \/ /\ ToLowerCase(doc[n].tag) = TagImg
               /\ Set(Attr(doc[n], <<"src">>))
               /\ Attr(doc[n], <<"src">>) \in DOMAIN images
         THEN <<>>
         ELSE StyleCallsOfAll(doc, Children(doc, n), rules,
                              computeStyles(doc, n, rules, parentStyles, throws),
                              throws))

StyleCallsOfAll(doc, kids, rules, parentStyles, throws) ==
    IF kids = <<>> THEN <<>>
    ELSE StyleCalls(doc, Head(kids), rules, parentStyles, throws)
         \o (IF IsRaised(convertElement(doc, Head(kids), rules, Viewport,
                                        parentStyles, throws))
             THEN <<>>
             ELSE StyleCallsOfAll(doc, Tail(kids), rules, parentStyles, throws))

InheritRules ==
    {Rule(<<<<TypeSelector(t)>>>>, <<Declaration(q, <<Identifier(v)>>)>>) :
        t \in {TagDiv, TagP}, q \in {Background, <<"color">>}, v \in {Blue}}

InheritSheets == SeqsUpTo(InheritRules, 2)

InheritInlines == {<<>>, <<"color", ":", "red">>, <<"background", ":", "red">>}

\* <div><p><span>Hi</span></p></div> and <div><p>Hi</p></div><p>Hi</p>, the
\* div and the first p with or without a style attribute
InheritDocuments ==
    UNION {{<<El(TagDiv, 0, (<<"style">> :> a), <<>>, TRUE),
              El(TagP, 1, (<<"style">> :> b), <<>>, TRUE),
              El(TagSpan, 2, EmptyObject, Hi, TRUE)>>,
            <<El(TagDiv, 0, (<<"style">> :> a), <<>>, TRUE),
              El(TagP, 1, (<<"style">> :> b), Hi, TRUE),
              El(TagP, 0, EmptyObject, Hi, TRUE)>>} :
           a \in InheritInlines, b \in InheritInlines}

InitInherit ==
    /\ pc = "load"
    /\ html \in InheritDocuments
    /\ css \in InheritSheets
    /\ parseThrows = "never"
    /\ selectThrows \in BOOLEAN
    /\ arg = Viewport
    /\ ret = NoRet
    /\ cssRules = <<>>
    /\ page = <<>>
    /\ idx = 0
    /\ warned = FALSE
    /\ request = NoRequest
    /\ images = <<>>
    /\ fonts = <<>>
    /\ imageProcessor = FALSE
    /\ imageCache = <<>>
    /\ animations = {}
    /\ sessions = <<>>
    /\ heap = <<>>
    /\ calls = <<>>
    /\ browser = FALSE

\* One turn of the loop over body.children(), with the calls of
\* computeStyles it makes added to the record.
ConvertChildStyles ==
    /\ pc = "children"
    /\ idx <= Len(Children(html, 0))
    /\ Push(convertElement(html, FindFirst(html, html[Children(html, 0)[idx]].tag),
                           cssRules, arg, EmptyObject, selectThrows))
    /\ calls' = calls \o StyleCalls(html,
                                    FindFirst(html, html[Children(html, 0)[idx]].tag),
                                    cssRules, EmptyObject, selectThrows)
    /\ UNCHANGED <<arg, html, css, cssRules, selectThrows, parseThrows, warned,
                   request, images, fonts, imageProcessor, imageCache,
                   animations, sessions, heap, browser>>

NextInherit == HtmlToFigma \/ ConvertChildStyles \/ ReturnDocument

SpecInherit == InitInherit /\ [][NextInherit]_vars

\* A rule that matches element n, or the style attribute of n, declares q.
DeclaresOwn(n, q) ==
    \/ \E k \in DOMAIN cssRules :
          /\ matches(html, n, cssRules[k].selector, selectThrows)
          /\ q \in DOMAIN cssRules[k].declarations
    \/ q \in DOMAIN InlineDeclared(html[n])

\* C24: the effective style computed for an element that has a parent
\* element holds every property of an effective style computed for the
\* parent, with the parent's value, unless a rule matching the element or
\* its style attribute declares the property.
C24_FlatInheritance ==
    \A c \in DOMAIN calls, d \in DOMAIN calls :
        calls[d].node = html[calls[c].node].parent =>
            \A q \in DOMAIN calls[d].styles :
                \/ DeclaresOwn(calls[c].node, q)
                \/ /\ q \in DOMAIN calls[c].styles
                   /\ calls[c].styles[q] = calls[d].styles[q]


\* The children convertElement collected for element n in the runs without
\* stylesheet and style attributes: the nodes of its element children, or
\* the text child made from its text.
CollectedChildren(n) ==
    ChildrenOrText(ConvertChildren(html, Children(html, n), cssRules, arg,
                                   EmptyObject, selectThrows).nodes,
                   Trim(TextOf(html, n)), EmptyObject)

\* The characters of the TEXT nodes among the nodes, one after the other
TextCharacters(nodes) ==
    Concat([k \in DOMAIN nodes |->
              IF nodes[k]["type"] = "TEXT" /\ "characters" \in DOMAIN nodes[k]
              THEN nodes[k]["characters"] ELSE <<>>])

\* C25: no node of type TEXT of the output has a children field, and the
\* characters of the node of a text-classified element that collected
\* children are the characters of its TEXT children, in document order.
C25_TextHasNoChildren ==
    \A i \in DOMAIN Flat(page) :
        LET node == Flat(page)[i]
        IN  node["type"] = "TEXT" =>
                /\ "children" \notin DOMAIN node
                /\ (FromElement(node) /\ CollectedChildren(node["src"]) # <<>>)
                     => /\ "characters" \in DOMAIN node
                        /\ node["characters"]
                             = TextCharacters(CollectedChildren(node["src"]))

\* <span><div> Hi</div><span> Hi</span></span> converted: the node of the
\* outer span is a TEXT that holds the characters of the inner span only.
C25_Witness ==
    /\ pc = "done"
    /\ Len(html) = 3
    /\ html[1].tag = TagSpan
    /\ html[2].tag = TagDiv /\ html[2].parent = 1 /\ html[2].text = Hi
    /\ html[3].tag = TagSpan /\ html[3].parent = 1 /\ html[3].text = Hi
    /\ Len(page) = 1
    /\ page[1]["type"] = "TEXT"
    /\ page[1]["characters"] = <<"H", "i">>
    /\ "children" \notin DOMAIN page[1]


\* The element children of body that are not filtered, in document order
KeptBodyChildren == SelectSeq(Children(html, 0), LAMBDA n : ~IsFiltered(n))

\* C26: when htmlToFigma returns, the canvas holds one node for each
\* non-filtered element child of body, in document order, and the i-th node
\* is built from the i-th of those children.
C26_TopLevelFromEachChild ==
    pc = "done" =>
        /\ Len(page) = Len(KeptBodyChildren)
        /\ \A i \in DOMAIN page :
              FromElement(page[i]) /\ page[i]["src"] = KeptBodyChildren[i]


(***************************************************************************)
(* Runs of htmlToFigma over an element that holds title, meta and link     *)
(* elements, with and without text of its own                              *)
(***************************************************************************)
TagMeta == <<"m", "e", "t", "a">>

TagLink == <<"l", "i", "n", "k">>

TitleText == <<"T">>

\* The filtered elements put into element 1: a title with or without text,
\* a meta, a link
FilteredElements ==
    {El(TagTitle, 1, EmptyObject, TitleText, TRUE),
     El(TagTitle, 1, EmptyObject, <<>>, TRUE),
     El(TagMeta, 1, EmptyObject, <<>>, TRUE),
     El(TagLink, 1, EmptyObject, <<>>, TRUE)}

\* <div> or <p>, with or without text, holding one filtered element, and
\* then nothing, a second title or a span
FilteredDocuments ==
    {<<El(t, 0, EmptyObject, own, TRUE), f>> \o more :
        t \in {TagDiv, TagP}, own \in Texts, f \in FilteredElements,
        more \in {<<>>, <<El(TagTitle, 1, EmptyObject, TitleText, TRUE)>>,
                  <<El(TagSpan, 1, EmptyObject, Hi, TRUE)>>}}

InitFiltered ==
    /\ pc = "load"
    /\ html \in FilteredDocuments
    /\ css = <<>>
    /\ parseThrows = "never"
    /\ selectThrows = FALSE
    /\ arg = Viewport
    /\ ret = NoRet
    /\ cssRules = <<>>
    /\ page = <<>>
    /\ idx = 0
    /\ warned = FALSE
    /\ request = NoRequest
    /\ images = <<>>
    /\ fonts = <<>>
    /\ imageProcessor = FALSE
    /\ imageCache = <<>>
    /\ animations = {}
    /\ sessions = <<>>
    /\ heap = <<>>
    /\ calls = <<>>
    /\ browser = FALSE

SpecFiltered == InitFiltered /\ [][NextFlex]_vars

\* The node holds the text of its element alone: a TEXT node has it as
\* characters, another node as its one TEXT child, and a node of an element
\* without text has neither.
OwnTextOnly(node) ==
    LET own == Trim(html[node["src"]].text)
    IN  IF node["type"] = "TEXT"
        THEN IF own = <<>> THEN "characters" \notin DOMAIN node
             ELSE "characters" \in DOMAIN node /\ node["characters"] = own
        ELSE IF own = <<>> THEN "children" \notin DOMAIN node
             ELSE /\ "children" \in DOMAIN node
                  /\ Len(node["children"]) = 1
                  /\ node["children"][1]["type"] = "TEXT"
                  /\ node["children"][1]["characters"] = own

\* C27: the node of an element whose element children are all filtered
\* holds the text of the element alone, and no characters of the output
\* hold text of a title element.
C27_NoFilteredText ==
    \A i \in DOMAIN Flat(page) :
        LET node == Flat(page)[i]
        IN  /\ (/\ FromElement(node)
                /\ \A k \in SeqToSet(Children(html, node["src"])) : IsFiltered(k))
               => OwnTextOnly(node)
            /\ "characters" \in DOMAIN node
               => \A j \in DOMAIN node["characters"] :
                     SubSeq(node["characters"], j, j) # TitleText


\* C28: in every effective style computed for an element, a property that
\* a rule matching the element declares, and that the style attribute of
\* the element does not declare, has the value given by the last matching
\* rule of the stylesheet that declares it.
C28_EveryDeclarationApplies ==
    \A c \in DOMAIN calls, q \in {Background, <<"color">>} :
        (/\ MatchingRules(calls[c].node, q) # {}
         /\ q \notin DOMAIN InlineDeclared(html[calls[c].node]))
        => /\ q \in DOMAIN calls[c].styles
           /\ calls[c].styles[q]
                = DeclaredBy(Max(MatchingRules(calls[c].node, q)), q)


\* C29: for every parsed JSON value validateH2DFile returns true or false
\* and raises nothing: the step that validates a parsed file starts the
\* conversion when every required field is there with its type, and
\* otherwise ends with the validation error, the verdict being false.
C29_ValidatorTotal ==
    [][(pc = "read" /\ ~request.file.malformed)
         => /\ validateH2DFile(request.file.data) \in {"true", "false"}
            /\ (validateH2DFile(request.file.data) = "true")
                 <=> Conforms(request.file.data, Checks)
            /\ (pc' = "load") <=> Conforms(request.file.data, Checks)
            /\ pc' = "raised" => ret' = McpError("InvalidRequest")]_vars


(***************************************************************************)
(* WebToFigmaConverter.convert step by step: the browser, the page and the *)
(* awaited calls, each of which can be rejected                            *)
(***************************************************************************)
MaxConversions == 2

\* The awaited calls of convert between newPage and page.close(), in order
PageSteps ==
    <<"setViewport", "emulateMediaFeatures", "goto", "waitForTimeout",
      "content", "extractStyles", "extractInteractionStates",
      "detectJavaScriptAnimations", "processWebImages", "detectFonts">>

StepIndex(step) == CHOOSE k \in DOMAIN PageSteps : PageSteps[k] = step

\* The call that follows: emulateMediaFeatures is made for the dark theme
\* only, and page.close() follows detectFonts.
After(k, theme) ==
    IF k + 1 > Len(PageSteps) THEN "close"
    ELSE IF PageSteps[k + 1] = "emulateMediaFeatures" /\ theme # "dark"
    THEN PageSteps[k + 2]
    ELSE PageSteps[k + 1]

NewConversion(theme) == [theme |-> theme, pc |-> "launch", open |-> FALSE]

InitPages ==
    /\ pc = "serve"
    /\ sessions \in UNION {[1..n -> {NewConversion(theme) : theme \in {"light", "dark"}}] :
                              n \in 1..MaxConversions}
    /\ browser = FALSE
    /\ arg = NoRequest
    /\ ret = NoRet
    /\ html = <<>>
    /\ css = <<>>
    /\ cssRules = <<>>
    /\ page = <<>>
    /\ idx = 0
    /\ selectThrows = FALSE
    /\ parseThrows = "never"
    /\ warned = FALSE
    /\ request = NoRequest
    /\ images = <<>>
    /\ fonts = <<>>
    /\ imageProcessor = TRUE
    /\ imageCache = <<>>
    /\ animations = {}
    /\ heap = <<>>
    /\ calls = <<>>

Rest == UNCHANGED <<pc, arg, ret, html, css, cssRules, page, idx, selectThrows,
                    parseThrows, warned, request, images, fonts, imageProcessor,
                    imageCache, animations, heap, calls>>

\* catch (error) { throw new Error(...) }: convert ends, nothing is closed.
Thrown(i) == [sessions EXCEPT ![i].pc = "thrown"]

\* if (!this.browser) this.browser = await puppeteer.launch(...)
Launch(i) ==
    /\ sessions[i].pc = "launch"
    /\ \E ok \in BOOLEAN :
          IF browser \/ ok
          THEN /\ browser' = TRUE
               /\ sessions' = [sessions EXCEPT ![i].pc = "newPage"]
          ELSE /\ browser' = browser
               /\ sessions' = Thrown(i)
    /\ Rest

\* const page = await this.browser.newPage()
NewPage(i) ==
    /\ sessions[i].pc = "newPage"
    /\ \E ok \in BOOLEAN :
          IF browser /\ ok
          THEN sessions' = [sessions EXCEPT ![i].pc = "setViewport",
                                            ![i].open = TRUE]
          ELSE sessions' = Thrown(i)
    /\ UNCHANGED browser
    /\ Rest

\* One awaited call on the page, from setViewport to detectFonts: it
\* resolves and convert goes on, or it is rejected.
AwaitPage(i) ==
    /\ sessions[i].pc \in SeqToSet(PageSteps)
    /\ \E ok \in BOOLEAN :
          IF sessions[i].open /\ ok
          THEN sessions' = [sessions EXCEPT
                              ![i].pc = After(StepIndex(sessions[i].pc),
                                              sessions[i].theme)]
          ELSE sessions' = Thrown(i)
    /\ UNCHANGED browser
    /\ Rest

\* await page.close()
ClosePage(i) ==
    /\ sessions[i].pc = "close"
    /\ \E ok \in BOOLEAN :
          IF sessions[i].open /\ ok
          THEN sessions' = [sessions EXCEPT ![i].pc = "htmlToFigma",
                                            ![i].open = FALSE]
          ELSE sessions' = Thrown(i)
    /\ UNCHANGED browser
    /\ Rest

\* const figmaData = await this.htmlToFigma(...); return figmaData
ReturnFigmaData(i) ==
    /\ sessions[i].pc = "htmlToFigma"
    /\ \E ok \in BOOLEAN :
          sessions' = IF ok THEN [sessions EXCEPT ![i].pc = "returned"]
                      ELSE Thrown(i)
    /\ UNCHANGED browser
    /\ Rest

\* cleanup(): await this.browser.close(), which closes the pages of the
\* browser; this.browser = null
Cleanup ==
    /\ browser
    /\ browser' = FALSE
    /\ sessions' = [i \in DOMAIN sessions |-> [sessions[i] EXCEPT !.open = FALSE]]
    /\ Rest

NextPages ==
    \/ \E i \in DOMAIN sessions :
          \/ Launch(i) \/ NewPage(i) \/ AwaitPage(i) \/ ClosePage(i)
          \/ ReturnFigmaData(i)
    \/ Cleanup

SpecPages == InitPages /\ [][NextPages]_vars

\* C30: when convert has returned or thrown, the page it opened is closed.
C30_PagesClosed ==
    \A i \in DOMAIN sessions :
        sessions[i].pc \in {"returned", "thrown"} => ~sessions[i].open

====
